---- MODULE Spec2Model ----
(***************************************************************************)
(* Model of the prismtm data layer: atomic file persistence                *)
(* (prismtm/data/io.py), schema-version detection                          *)
(* (prismtm/data/validate.py, prismtm/data.py), the migration engine       *)
(* (prismtm/migrate.py), project backups (prismtm/data/backup.py),         *)
(* context validation and ProjectScope (prismtm/data/core.py), the time    *)
(* tracker (prismtm/models.py) and generated migrations                    *)
(* (migration_generator.py).                                               *)
(*                                                                         *)
(* File contents are sequences of lexical tokens.  A token is a pair       *)
(* <<class, payload>>: "p" punctuation, "l" a literal word, "i" an         *)
(* integer, "s" a string.  In-memory values are tagged tuples:             *)
(* <<"null">>, <<"bool", b>>, <<"int", n>>, <<"str", s>>,                  *)
(* <<"list", items>>, <<"map", entries>> (entries keep insertion order,    *)
(* keys are field names) and <<"obj">>, a value no serializer knows.       *)
(***************************************************************************)
EXTENDS Integers, Sequences, FiniteSets, TLC

\* ------------------------------------------------------------------ bounds
MaxLen == 2
\* seconds the clock may advance, and calls made, in the backup and time runs
MaxClock == 1
MaxCalls == 3
\* calls of migrate_project_files / migrate_user_files in a row
MaxRuns == 2

\* --------------------------------------------------------- program constants
DATA_YAML == 0
DATA_JSON == 1

\* ------------------------------------------------------------ value space
Null == <<"null">>
Int1 == <<"int", 1>>
StrA == <<"str", "a">>
Obj == <<"obj">>

SeqsUpTo(S, n) == UNION {[1..k -> S] : k \in 0..n}

Scalars == {Null, <<"bool", TRUE>>, Int1, StrA}
Elems == {Int1, StrA}
Lists == {<<"list", s>> : s \in SeqsUpTo(Elems, MaxLen)} \cup {<<"list", <<Int1, Obj>> >>}
InnerMaps == {<<"map", e>> : e \in SeqsUpTo({<<"a", Int1>>}, 1)}
Values == Scalars \cup Lists \cup InnerMaps \cup {Obj}

\* Documents: mappings of the field names "a" and "b" to values.
Docs ==
  {<<"map", <<>> >>}
  \cup {<<"map", << <<k, v>> >> >> : k \in {"a", "b"}, v \in Values}
  \cup {<<"map", << <<"a", v>>, <<"b", w>> >> >> : v \in Values, w \in Values}

\* ----------------------------------------------------------------- tokens
LBRACE == <<"p", "{">>
RBRACE == <<"p", "}">>
LBRACK == <<"p", "[">>
RBRACK == <<"p", "]">>
COMMA == <<"p", ",">>
COLON == <<"p", ":">>
DASH == <<"p", "-">>
INDENT == <<"p", "indent">>
DEDENT == <<"p", "dedent">>
RAISE == <<"x", "TypeError">>

RECURSIVE Flatten(_)
Flatten(ss) == IF ss = <<>> THEN <<>> ELSE Head(ss) \o Flatten(Tail(ss))

\* json.dump(data, fp, indent=2, ensure_ascii=False): the chunks that the
\* encoder hands to fp.write, in order.  RAISE marks the point at which the
\* encoder raises TypeError; nothing after it is ever produced.
RECURSIVE JsonChunks_pybool(_)
JsonChunks_pybool(v) ==
  CASE v[1] = "null" -> << <<"l", "null">> >>
    [] v[1] = "bool" -> << <<"l", IF v[2] THEN "True" ELSE "False">> >>
    [] v[1] = "int" -> << <<"i", v[2]>> >>
    [] v[1] = "str" -> << <<"s", v[2]>> >>
    [] v[1] = "list" ->
         <<LBRACK>>
         \o Flatten([i \in 1..Len(v[2]) |->
               (IF i > 1 THEN <<COMMA>> ELSE <<>>) \o JsonChunks_pybool(v[2][i])])
         \o <<RBRACK>>
    [] v[1] = "map" ->
         <<LBRACE>>
         \o Flatten([i \in 1..Len(v[2]) |->
               (IF i > 1 THEN <<COMMA>> ELSE <<>>)
               \o << <<"s", v[2][i][1]>>, COLON >> \o JsonChunks_pybool(v[2][i][2])])
         \o <<RBRACE>>
    [] OTHER -> <<RAISE>>

RECURSIVE JsonChunks(_)
JsonChunks(v) ==
  CASE v[1] = "null" -> << <<"l", "null">> >>
    [] v[1] = "bool" -> << <<"l", IF v[2] THEN "true" ELSE "false">> >>
    [] v[1] = "int" -> << <<"i", v[2]>> >>
    [] v[1] = "str" -> << <<"s", v[2]>> >>
    [] v[1] = "list" ->
         <<LBRACK>>
         \o Flatten([i \in 1..Len(v[2]) |->
               (IF i > 1 THEN <<COMMA>> ELSE <<>>) \o JsonChunks(v[2][i])])
         \o <<RBRACK>>
    [] v[1] = "map" ->
         <<LBRACE>>
         \o Flatten([i \in 1..Len(v[2]) |->
               (IF i > 1 THEN <<COMMA>> ELSE <<>>)
               \o << <<"s", v[2][i][1]>>, COLON >> \o JsonChunks(v[2][i][2])])
         \o <<RBRACE>>
    [] OTHER -> <<RAISE>>

\* yaml.safe_dump(data, fp, default_flow_style=False, sort_keys=False):
\* block style; an empty collection is written in flow style.
RECURSIVE YamlChunks(_)
YamlNested(v) ==
  IF v[1] \in {"list", "map"} /\ v[2] # <<>>
  THEN <<INDENT>> \o YamlChunks(v) \o <<DEDENT>>
  ELSE YamlChunks(v)
YamlChunks(v) ==
  CASE v[1] = "null" -> << <<"l", "null">> >>
    [] v[1] = "bool" -> << <<"l", IF v[2] THEN "true" ELSE "false">> >>
    [] v[1] = "int" -> << <<"i", v[2]>> >>
    [] v[1] = "str" -> << <<"s", v[2]>> >>
    [] v[1] = "list" ->
         IF v[2] = <<>> THEN <<LBRACK, RBRACK>>
         ELSE Flatten([i \in 1..Len(v[2]) |-> <<DASH>> \o YamlNested(v[2][i])])
    [] v[1] = "map" ->
         IF v[2] = <<>> THEN <<LBRACE, RBRACE>>
         ELSE Flatten([i \in 1..Len(v[2]) |->
                << <<"s", v[2][i][1]>>, COLON >> \o YamlNested(v[2][i][2])])
    [] OTHER -> <<RAISE>>

\* Index of the first RAISE marker, or Len+1 when the stream has none.
RaiseAt(chunks) ==
  IF \E i \in 1..Len(chunks) : chunks[i] = RAISE
  THEN CHOOSE i \in 1..Len(chunks) :
         chunks[i] = RAISE /\ \A j \in 1..(i-1) : chunks[j] # RAISE
  ELSE Len(chunks) + 1

Serializable(v) == LET c == JsonChunks(v) IN RaiseAt(c) = Len(c) + 1

\* The chunks that reach the file before the serializer returns or raises.
\* The JSON encoder streams, so everything before the offending value has
\* been written; the YAML representer builds the whole node graph before
\* the first byte is emitted, so a failing document writes nothing.
Emitted(dt, v) ==
  IF dt = DATA_JSON
  THEN LET c == JsonChunks(v) IN SubSeq(c, 1, RaiseAt(c) - 1)
  ELSE IF Serializable(v) THEN YamlChunks(v) ELSE <<>>

\* ------------------------------------------------------------ JSON parser
ParseFail == [ok |-> FALSE, val |-> Null, next |-> 0]
ParseOk(v, n) == [ok |-> TRUE, val |-> v, next |-> n]

\* dict semantics of the decoder: a repeated key keeps its first position
\* and takes the last value.
PutEntry(acc, k, v) ==
  IF \E i \in 1..Len(acc) : acc[i][1] = k
  THEN [i \in 1..Len(acc) |-> IF acc[i][1] = k THEN <<k, v>> ELSE acc[i]]
  ELSE Append(acc, <<k, v>>)

RECURSIVE ParseValue(_, _), ParseItems(_, _, _), ParseMembers(_, _, _)
ParseValue(t, i) ==
  IF i > Len(t) THEN ParseFail
  ELSE LET k == t[i] IN
    CASE k[1] = "l" ->
           (CASE k[2] = "null" -> ParseOk(Null, i + 1)
              [] k[2] = "true" -> ParseOk(<<"bool", TRUE>>, i + 1)
              [] k[2] = "false" -> ParseOk(<<"bool", FALSE>>, i + 1)
              [] OTHER -> ParseFail)
      [] k[1] = "i" -> ParseOk(<<"int", k[2]>>, i + 1)
      [] k[1] = "s" -> ParseOk(<<"str", k[2]>>, i + 1)
      [] k[1] = "p" ->
           (CASE k[2] = "[" ->
                   IF i + 1 <= Len(t) /\ t[i + 1] = RBRACK
                   THEN ParseOk(<<"list", <<>> >>, i + 2)
                   ELSE ParseItems(t, i + 1, <<>>)
              [] k[2] = "{" ->
                   IF i + 1 <= Len(t) /\ t[i + 1] = RBRACE
                   THEN ParseOk(<<"map", <<>> >>, i + 2)
                   ELSE ParseMembers(t, i + 1, <<>>)
              [] OTHER -> ParseFail)
      [] OTHER -> ParseFail
ParseItems(t, i, acc) ==
  LET r == ParseValue(t, i) IN
    IF ~r.ok \/ r.next > Len(t) THEN ParseFail
    ELSE IF t[r.next] = COMMA THEN ParseItems(t, r.next + 1, Append(acc, r.val))
    ELSE IF t[r.next] = RBRACK THEN ParseOk(<<"list", Append(acc, r.val)>>, r.next + 1)
    ELSE ParseFail
ParseMembers(t, i, acc) ==
  IF i + 1 > Len(t) \/ t[i][1] # "s" \/ t[i + 1] # COLON THEN ParseFail
  ELSE LET r == ParseValue(t, i + 2) IN
    IF ~r.ok \/ r.next > Len(t) THEN ParseFail
    ELSE IF t[r.next] = COMMA
         THEN ParseMembers(t, r.next + 1, PutEntry(acc, t[i][2], r.val))
    ELSE IF t[r.next] = RBRACE
         THEN ParseOk(<<"map", PutEntry(acc, t[i][2], r.val)>>, r.next + 1)
    ELSE ParseFail

\* json.load(f): one value followed by the end of the input.
json_load(t) ==
  LET r == ParseValue(t, 1) IN
    IF r.ok /\ r.next = Len(t) + 1 THEN r ELSE ParseFail

\* Python truthiness of a decoded value (the left operand of "or {}").
Falsy(v) ==
  \/ v = Null
  \/ v[1] = "bool" /\ v[2] = FALSE
  \/ v[1] = "int" /\ v[2] = 0
  \/ v[1] = "str" /\ v[2] = ""
  \/ v[1] \in {"list", "map"} /\ v[2] = <<>>

\* ------------------------------------------------------------ file system
Absent == [exists |-> FALSE, text |-> <<>>]
File(t) == [exists |-> TRUE, text |-> t]

\* load_json_file on a file whose bytes can be read.
load_json_file_lenient(f) ==
  IF ~f.exists THEN <<"None">>
  ELSE LET r == json_load(f.text) IN
    IF ~r.ok THEN <<"None">>
    ELSE LET data == IF Falsy(r.val) THEN <<"map", <<>> >> ELSE r.val IN
      IF data[1] # "map" THEN <<"FatalError">> ELSE <<"ok", data>>

load_json_file(f) ==
  IF ~f.exists THEN <<"None">>
  ELSE LET r == json_load(f.text) IN
    IF ~r.ok THEN <<"FatalError">>
    ELSE LET data == IF Falsy(r.val) THEN <<"map", <<>> >> ELSE r.val IN
      IF data[1] # "map" THEN <<"FatalError">> ELSE <<"ok", data>>

\* ================================================================ state
VARIABLES
  \* --- one call atomic_write(data_type, file_path, data, create_dirs) ---
  pc,           \* position inside atomic_write
  data_type,    \* argument
  data,         \* argument
  create_dirs,  \* argument
  parentDir,    \* TRUE iff file_path.parent exists on disk
  target,       \* the file at file_path
  tmp,          \* the temporary file .<name>.XXXX.tmp next to the target
  temp_file,    \* local: TRUE once the with statement has bound temp_file
  temp_path,    \* local: TRUE once temp_path = temp_file.name was assigned
  exc,          \* the exception travelling to the except clauses
  result,       \* how the call ended
  seen,         \* what the last load_json_file(file_path) of a reader gave
  prior         \* the disk as it was when the call started

ioVars == <<pc, data_type, data, create_dirs, parentDir, target, tmp,
            temp_file, temp_path, exc, result, seen, prior>>

\* Contents the target may hold before the call.
Doc0 == <<"map", << <<"b", Null>> >> >>
PriorTargets ==
  { Absent,
    File(JsonChunks(Doc0)),                  \* a complete JSON document
    File(SubSeq(JsonChunks(Doc0), 1, 3)),    \* a truncated one
    File(<<LBRACK, <<"i", 1>>, RBRACK>>) }     \* JSON, but not a mapping

InitIO ==
  /\ pc = "start"
  /\ data_type \in {DATA_YAML, DATA_JSON, 2}
  /\ data \in Docs
  /\ create_dirs \in BOOLEAN
  /\ parentDir \in BOOLEAN
  /\ target \in PriorTargets
  /\ parentDir = FALSE => target = Absent
  /\ tmp = Absent
  /\ temp_file = FALSE
  /\ temp_path = FALSE
  /\ exc = "none"
  /\ result = "none"
  /\ seen = <<"unread">>
  /\ prior = [dir |-> parentDir, target |-> target]

\* ------------------------------------------------------------ atomic_write
Running == pc \in {"start", "mktemp", "dump", "flush", "replace", "except"}

\* _create_dirs raises FileOperationError when mkdir fails.
create_dirs_step ==
  /\ pc = "start"
  /\ IF ~create_dirs
     THEN pc' = "mktemp" /\ UNCHANGED <<parentDir, exc>>
     ELSE \/ pc' = "mktemp" /\ parentDir' = TRUE /\ UNCHANGED exc
          \/ /\ ~parentDir
             /\ pc' = "except" /\ exc' = "FileOperationError"
             /\ UNCHANGED parentDir
  /\ UNCHANGED <<data_type, data, create_dirs, target, tmp, temp_file,
                 temp_path, result, seen, prior>>

\* tempfile.NamedTemporaryFile(dir=file_path.parent, delete=False)
mktemp ==
  /\ pc = "mktemp"
  /\ \/ /\ parentDir
        /\ tmp' = File(<<>>) /\ temp_file' = TRUE /\ pc' = "dump"
        /\ UNCHANGED exc
     \/ /\ pc' = "except" /\ exc' = "OSError"
        /\ UNCHANGED <<tmp, temp_file>>
  /\ UNCHANGED <<data_type, data, create_dirs, parentDir, target,
                 temp_path, result, seen, prior>>

\* One fp.write of the serializer: the chunk lands in the temporary file.
\* The file object buffers, so the disk may hold any shorter prefix; every
\* such prefix is the content of an earlier state of this model.
write_chunk_inplace ==
  /\ pc = "dump"
  /\ data_type \in {DATA_YAML, DATA_JSON}
  /\ Len(tmp.text) < Len(Emitted(data_type, data))
  /\ tmp' = File(Append(tmp.text, Emitted(data_type, data)[Len(tmp.text) + 1]))
  /\ target' = tmp'
  /\ UNCHANGED <<pc, data_type, data, create_dirs, parentDir,
                 temp_file, temp_path, exc, result, seen, prior>>

write_chunk ==
  /\ pc = "dump"
  /\ data_type \in {DATA_YAML, DATA_JSON}
  /\ Len(tmp.text) < Len(Emitted(data_type, data))
  /\ tmp' = File(Append(tmp.text, Emitted(data_type, data)[Len(tmp.text) + 1]))
  /\ UNCHANGED <<pc, data_type, data, create_dirs, parentDir, target,
                 temp_file, temp_path, exc, result, seen, prior>>

\* A write to the temporary file fails (disk full, quota).
write_fails ==
  /\ pc = "dump"
  /\ data_type \in {DATA_YAML, DATA_JSON}
  /\ Len(tmp.text) < Len(Emitted(data_type, data))
  /\ pc' = "except" /\ exc' = "OSError"
  /\ UNCHANGED <<data_type, data, create_dirs, parentDir, target, tmp,
                 temp_file, temp_path, result, seen, prior>>

\* The serializer has produced all it can: it returns, or it raises
\* (TypeError from json, RepresenterError from yaml), or the format is
\* unknown and atomic_write raises FatalError inside the with block.
dump_ends ==
  /\ pc = "dump"
  /\ IF data_type \notin {DATA_YAML, DATA_JSON}
     THEN pc' = "except" /\ exc' = "FatalError"
     ELSE /\ Len(tmp.text) = Len(Emitted(data_type, data))
          /\ IF Serializable(data)
             THEN pc' = "flush" /\ UNCHANGED exc
             ELSE /\ pc' = "except"
                  /\ exc' = IF data_type = DATA_JSON THEN "TypeError" ELSE "YAMLError"
  /\ UNCHANGED <<data_type, data, create_dirs, parentDir, target, tmp,
                 temp_file, temp_path, result, seen, prior>>

\* temp_file.flush(); os.fsync(...); temp_path = temp_file.name; close
flush ==
  /\ pc = "flush"
  /\ \/ pc' = "replace" /\ temp_path' = TRUE /\ UNCHANGED exc
     \/ pc' = "except" /\ exc' = "OSError" /\ UNCHANGED temp_path
  /\ UNCHANGED <<data_type, data, create_dirs, parentDir, target, tmp,
                 temp_file, result, seen, prior>>

\* os.replace(temp_path, file_path); return True
replace ==
  /\ pc = "replace"
  /\ \/ /\ target' = tmp /\ tmp' = Absent
        /\ pc' = "returned" /\ result' = "True"
        /\ UNCHANGED exc
     \/ /\ pc' = "except" /\ exc' = "OSError"
        /\ UNCHANGED <<target, tmp, result>>
  /\ UNCHANGED <<data_type, data, create_dirs, parentDir,
                 temp_file, temp_path, seen, prior>>

\* _cleanup(temp_file, temp_path): the path it settles on exists exactly
\* when the temporary file does; it then evaluates the name "success",
\* which no scope defines, so the unlink is never reached.
cleanup(tf, tp, f) ==
  LET temp_file_path == tp \/ (tf /\ f.exists) IN
    IF temp_file_path /\ f.exists
    THEN [raised |-> "NameError", file |-> f]
    ELSE [raised |-> "none", file |-> f]

\* Which except clause of atomic_write takes the exception, and what that
\* clause raises once _cleanup has returned.
Reraised(e) ==
  CASE e \in {"YAMLError", "TypeError"} -> "FatalError"
    [] e = "OSError" -> "FileOperationError"
    [] OTHER -> "FatalError"

except ==
  /\ pc = "except"
  /\ LET c == cleanup(temp_file, temp_path, tmp) IN
       /\ tmp' = c.file
       /\ result' = IF c.raised # "none" THEN c.raised ELSE Reraised(exc)
  /\ pc' = "raised"
  /\ UNCHANGED <<data_type, data, create_dirs, parentDir, target,
                 temp_file, temp_path, exc, seen, prior>>

\* The process is killed while atomic_write is running.
kill ==
  /\ Running
  /\ pc' = "killed"
  /\ UNCHANGED <<data_type, data, create_dirs, parentDir, target, tmp,
                 temp_file, temp_path, exc, result, seen, prior>>

\* A reader calls load_json_file(file_path) at any moment.
reader_load ==
  /\ seen' = load_json_file(target)
  /\ UNCHANGED <<pc, data_type, data, create_dirs, parentDir, target, tmp,
                 temp_file, temp_path, exc, result, prior>>

\* The reader's open or read fails: load_json_file raises FileOperationError.
reader_load_fails ==
  /\ target.exists
  /\ seen' = <<"FileOperationError">>
  /\ UNCHANGED <<pc, data_type, data, create_dirs, parentDir, target, tmp,
                 temp_file, temp_path, exc, result, prior>>

\* ======================================================= version detection
\* Strings that the detection code sorts, prefixes or returns are sequences
\* of character codes, so that sorted() orders them as Python orders str.
PROJECT_SCOPE == 0
USER_SCOPE == 1
Scopes == {PROJECT_SCOPE, USER_SCOPE}

RECURSIVE Dec(_)
Dec(n) == IF n < 10 THEN <<48 + n>> ELSE Dec(n \div 10) \o <<48 + (n % 10)>>

\* "major.minor.patch"
VersionStr(v) == Dec(v[1]) \o <<46>> \o Dec(v[2]) \o <<46>> \o Dec(v[3])
\* "v" + s
VPrefixed(s) == <<118>> \o s
ZeroVersion == VersionStr(<<0, 0, 0>>)

\* The schema versions that have been published, and the names a version
\* directory may carry: "v0.9.0" (schema_generator.py) or "0.9.0".
Versions == {<<0, 9, 0>>, <<0, 10, 0>>}
DirNames == {VersionStr(v) : v \in Versions} \cup {VPrefixed(VersionStr(v)) : v \in Versions}
\* The version whose schemas a directory of that name holds.
VersionOfDir(d) == CHOOSE v \in Versions : d \in {VersionStr(v), VPrefixed(VersionStr(v))}

\* Python's str ordering.
StrLess(a, b) ==
  \/ Len(a) < Len(b) /\ SubSeq(b, 1, Len(a)) = a
  \/ \E i \in 1..Len(a) :
       /\ i <= Len(b)
       /\ a[i] < b[i]
       /\ \A j \in 1..(i - 1) : a[j] = b[j]

\* packaging.version ordering of release triples.
VersionLess(v, w) ==
  \/ v[1] < w[1]
  \/ v[1] = w[1] /\ v[2] < w[2]
  \/ v[1] = w[1] /\ v[2] = w[2] /\ v[3] < w[3]

\* sorted(os.listdir(SCHEMA_ROOT_DIR), reverse=True)
RECURSIVE SortedDescStr(_)
SortedDescStr(S) ==
  IF S = {} THEN <<>>
  ELSE LET m == CHOOSE x \in S : \A y \in S \ {x} : StrLess(y, x)
       IN <<m>> \o SortedDescStr(S \ {m})

ProjectFiles == <<"tasktree.yml", "bugs.yml">>
UserFiles == <<"bugs.yml">>
FilesOf(s) == IF s = PROJECT_SCOPE THEN ProjectFiles ELSE UserFiles
Range(q) == {q[i] : i \in 1..Len(q)}

\* meta.json contents
MetaFile(v) == File(<<LBRACE, <<"s", "schema_version">>, COLON, <<"s", VersionStr(v)>>, RBRACE>>)
MetaEmptyObject == File(<<LBRACE, RBRACE>>)
MetaEmptyFile == File(<<>>)
MetaFiles == {Absent, MetaEmptyObject, MetaEmptyFile} \cup {MetaFile(v) : v \in Versions}

NoFile == [present |-> FALSE, conf |-> {}]

\* A scope on disk: its data directory, its *.yml files and its meta.json.
\* conf is the set of versions whose schema for the file's kind the file's
\* content satisfies.
ScopeStates(s) ==
  {[dir |-> FALSE, files |-> [f \in Range(FilesOf(s)) |-> NoFile], meta |-> Absent]}
  \cup [dir : {TRUE},
        files : [Range(FilesOf(s)) -> {NoFile} \cup [present : {TRUE}, conf : SUBSET Versions]],
        meta : MetaFiles]

VARIABLES
  schemaDirs,   \* os.listdir(SCHEMA_ROOT_DIR)
  scope,        \* the two data directories
  dpc,          \* position inside find_schema_versions
  dscope,       \* the scope find_schema_versions is working on
  found,        \* locals project / user of find_schema_versions
  tried,        \* per scope: the catalog entries that files were validated against
  dexc,         \* the exception that left find_schema_versions
  vfb           \* results of DataCore.validate_files_backwards per scope

detVars == <<schemaDirs, scope, dpc, dscope, found, tried, dexc, vfb>>

\* Values of found, tried and vfb before the code has assigned them.
Unset == <<0>>
NotRun == << <<0>> >>
NoResult == [version |-> <<>>, errors |-> <<>>]

\* SCHEMA_ROOT_DIR itself exists, and a version directory holds the schema
\* file of every kind under the name the probing code asks for.
InitDetect ==
  /\ schemaDirs \in SUBSET DirNames
  /\ scope \in [Scopes -> UNION {ScopeStates(s) : s \in Scopes}]
  /\ \A s \in Scopes : scope[s] \in ScopeStates(s)
  /\ dpc = "meta"
  /\ dscope = PROJECT_SCOPE
  /\ found = [s \in Scopes |-> Unset]
  /\ tried = [s \in Scopes |-> NotRun]
  /\ dexc = "none"
  /\ vfb = [s \in Scopes |-> NoResult]

YamlFiles(s) == {f \in Range(FilesOf(s)) : scope[s].files[f].present}

\* _load_schema(version, name) followed by validate(instance, schema) for
\* one file: the schema is looked up in the directory "v" + version.
Probe(dirs, version, file) ==
  IF VPrefixed(version) \notin dirs THEN "FileNotFoundError"
  ELSE IF VersionOfDir(VPrefixed(version)) \in file.conf THEN "ok"
  ELSE "ValidationError"

VARIABLES
  faults        \* what is damaged on disk: schema directories and data files

\* badjson: version directories whose schema files are not valid JSON;
\* unreadable: version directories whose schema files cannot be opened;
\* badyaml: data files that are not valid YAML.
NoFaults == [badjson |-> {}, unreadable |-> {}, badyaml |-> {}]

\* The try block of _validate_schemas_backwards for one file f and one
\* version: "ok", or the name of the exception raised by _load_schema,
\* by open / yaml.safe_load or by validate.
ProbeFile(dirs, version, sc, f) ==
  IF VPrefixed(version) \notin dirs THEN "FileNotFoundError"
  ELSE IF VPrefixed(version) \in faults.unreadable THEN "PermissionError"
  ELSE IF VPrefixed(version) \in faults.badjson THEN "JSONDecodeError"
  ELSE IF f \in faults.badyaml THEN "YAMLError"
  ELSE Probe(dirs, version, sc.files[f])

Handled_named(e) ==
  \/ e = "FileNotFoundError"
  \/ e \in {"JSONDecodeError", "YAMLError", "ValidationError", "SchemaError"}

\* The except clauses of that try block: FileNotFoundError, the tuple of
\* parse and validation errors, and Exception.
Handled(e) ==
  \/ e = "FileNotFoundError"
  \/ e \in {"JSONDecodeError", "YAMLError", "ValidationError", "SchemaError"}
  \/ e # "ok"

\* The loop of _validate_schemas_backwards over schema_versions[i..]:
\* the first entry under which every file validates, or "0.0.0"; exc is
\* the exception that leaves the function.
RECURSIVE BackwardsLoop(_, _, _, _)
BackwardsLoop(dirs, sc, versions, i) ==
  IF i > Len(versions) THEN [version |-> ZeroVersion, tried |-> versions, exc |-> "none"]
  ELSE LET yaml_files == {f \in DOMAIN sc.files : sc.files[f].present}
           escaping == {f \in yaml_files :
                          /\ ProbeFile(dirs, versions[i], sc, f) # "ok"
                          /\ ~Handled(ProbeFile(dirs, versions[i], sc, f))}
       IN IF escaping # {}
          THEN [version |-> ZeroVersion, tried |-> SubSeq(versions, 1, i),
                exc |-> ProbeFile(dirs, versions[i], sc, CHOOSE f \in escaping : TRUE)]
          ELSE IF \A f \in yaml_files : ProbeFile(dirs, versions[i], sc, f) = "ok"
          THEN [version |-> versions[i], tried |-> SubSeq(versions, 1, i), exc |-> "none"]
          ELSE BackwardsLoop(dirs, sc, versions, i + 1)

validate_schemas_backwards_nofilecheck(dirs, sc) ==
  IF ~sc.dir THEN [version |-> ZeroVersion, tried |-> <<>>, exc |-> "none"]
  ELSE LET schema_versions == SortedDescStr(dirs) IN
    IF schema_versions = <<>> THEN [version |-> ZeroVersion, tried |-> <<>>, exc |-> "none"]
    ELSE BackwardsLoop(dirs, sc, schema_versions, 1)

\* _validate_schemas_backwards(scope)
validate_schemas_backwards(dirs, sc) ==
  IF ~sc.dir THEN [version |-> ZeroVersion, tried |-> <<>>, exc |-> "none"]
  ELSE LET schema_versions == SortedDescStr(dirs) IN
    IF schema_versions = <<>> THEN [version |-> ZeroVersion, tried |-> <<>>, exc |-> "none"]
    ELSE IF \A f \in DOMAIN sc.files : ~sc.files[f].present
         THEN [version |-> ZeroVersion, tried |-> <<>>, exc |-> "none"]
    ELSE BackwardsLoop(dirs, sc, schema_versions, 1)

\* meta_data["schema_version"]
HasKey(doc, k) == \E i \in 1..Len(doc[2]) : doc[2][i][1] = k
Lookup(doc, k) == doc[2][CHOOSE i \in 1..Len(doc[2]) : doc[2][i][1] = k][2]

\* _get_meta_version(meta_file): <<"value", v>>, <<"None">> or <<"raise", e>>
get_meta_version(meta) ==
  IF ~meta.exists THEN <<"None">>
  ELSE LET meta_data == load_json_file(meta) IN
    CASE meta_data[1] = "FatalError" -> <<"raise", "FatalError">>
      [] meta_data[1] = "None" -> <<"None">>
      [] OTHER ->
           IF HasKey(meta_data[2], "schema_version")
           THEN LET v == Lookup(meta_data[2], "schema_version") IN
                  IF v = Null THEN <<"None">> ELSE <<"value", v[2]>>
           ELSE <<"raise", "KeyError">>

\* find_schema_versions moves on from the scope it has just settled.
AfterScope ==
  IF dscope = PROJECT_SCOPE
  THEN dpc' = "meta" /\ dscope' = USER_SCOPE
  ELSE dpc' = "returned" /\ UNCHANGED dscope

\* project = _get_meta_version(...) / user = _get_meta_version(...)
fsv_meta ==
  /\ dpc = "meta"
  /\ LET m == get_meta_version(scope[dscope].meta) IN
       CASE m[1] = "value" ->
              /\ found' = [found EXCEPT ![dscope] = m[2]]
              /\ AfterScope
              /\ UNCHANGED dexc
         [] m[1] = "None" ->
              /\ dpc' = "scan"
              /\ UNCHANGED <<dscope, found, dexc>>
         [] OTHER ->
              /\ dpc' = "raised"
              /\ dexc' = m[2]
              /\ UNCHANGED <<dscope, found>>
  /\ UNCHANGED <<schemaDirs, scope, tried, vfb>>

\* project = _validate_schemas_backwards(PROJECT_SCOPE) / user = ...
fsv_scan ==
  /\ dpc = "scan"
  /\ LET r == validate_schemas_backwards(schemaDirs, scope[dscope]) IN
       /\ tried' = [tried EXCEPT ![dscope] = r.tried]
       /\ IF r.exc = "none"
          THEN /\ found' = [found EXCEPT ![dscope] = r.version]
               /\ AfterScope
               /\ UNCHANGED dexc
          ELSE /\ dpc' = "raised"
               /\ dexc' = r.exc
               /\ UNCHANGED <<dscope, found>>
  /\ UNCHANGED <<schemaDirs, scope, vfb>>

\* ---------------------------------------------- DataCore (prismtm/data.py)
\* Entries of the schema root besides the version directories: a file, a
\* file with the name of a version, the directory of migration scripts
\* (migrate.py MIGRATIONS_DIR) and a directory whose name starts with "v".
ReadmeTxt == <<114, 101, 97, 100, 109, 101, 46, 116, 120, 116>>
V100 == <<118, 49, 46, 48, 46, 48>>
MigrationsName == <<109, 105, 103, 114, 97, 116, 105, 111, 110, 115>>
VendorName == <<118, 101, 110, 100, 111, 114>>
OtherEntries ==
  { [name |-> ReadmeTxt, is_dir |-> FALSE],
    [name |-> V100, is_dir |-> FALSE],
    [name |-> MigrationsName, is_dir |-> TRUE],
    [name |-> VendorName, is_dir |-> TRUE] }
DirEntries(dirs) == {[name |-> d, is_dir |-> TRUE] : d \in dirs}

\* s.split(".")
RECURSIVE SplitDots(_)
SplitDots(s) ==
  IF \E i \in 1..Len(s) : s[i] = 46
  THEN LET i == CHOOSE k \in 1..Len(s) : s[k] = 46 /\ \A j \in 1..(k - 1) : s[j] # 46
       IN <<SubSeq(s, 1, i - 1)>> \o SplitDots(SubSeq(s, i + 1, Len(s)))
  ELSE <<s>>

\* int(s) of a string of decimal digits
RECURSIVE ToInt(_)
ToInt(s) == IF s = <<>> THEN 0 ELSE 10 * ToInt(SubSeq(s, 1, Len(s) - 1)) + (s[Len(s)] - 48)

IsNumber(s) == s # <<>> /\ \A i \in 1..Len(s) : s[i] \in 48..57

\* packaging.version.parse(s) for names that are either a dotted release
\* N(.N)* or no version at all: <<"Version", release>> or <<"InvalidVersion">>.
version_parse(s) ==
  LET parts == SplitDots(s) IN
    IF \A i \in 1..Len(parts) : IsNumber(parts[i])
    THEN <<"Version", [i \in 1..Len(parts) |-> ToInt(parts[i])]>>
    ELSE <<"InvalidVersion">>

\* Order of the sort keys.  A release compares component by component, a
\* missing component counting as 0; where packaging still has LegacyVersion
\* an unparsable name is older than every release.
Comp(r, i) == IF i <= Len(r) THEN r[i] ELSE 0
ReleaseLess(a, b) ==
  \E i \in 1..(Len(a) + Len(b)) :
    /\ Comp(a, i) < Comp(b, i)
    /\ \A j \in 1..(i - 1) : Comp(a, j) = Comp(b, j)
KeyLess(a, b) ==
  LET ka == version_parse(a)
      kb == version_parse(b)
  IN CASE ka[1] = "Version" /\ kb[1] = "Version" -> ReleaseLess(ka[2], kb[2])
       [] ka[1] = "InvalidVersion" /\ kb[1] = "Version" -> TRUE
       [] ka[1] = "InvalidVersion" /\ kb[1] = "InvalidVersion" -> StrLess(a, b)
       [] OTHER -> FALSE

\* sorted(versions, key=version.parse, reverse=True)
RECURSIVE SortedDescKey(_)
SortedDescKey(S) ==
  IF S = {} THEN <<>>
  ELSE LET m == CHOOSE x \in S : \A y \in S \ {x} : ~KeyLess(x, y)
       IN <<m>> \o SortedDescKey(S \ {m})

\* get_schema_versions() over the entries of an existing schema root (a
\* missing root gives the same [] as an empty one).  packaging is not
\* pinned: version.parse of an unparsable name raises InvalidVersion
\* (packaging >= 22) or yields a LegacyVersion (legacy = TRUE).
get_schema_versions(entries, legacy) ==
  LET versions == {Tail(e.name) : e \in {x \in entries : x.is_dir /\ x.name # <<>> /\ x.name[1] = 118}}
  IN IF ~legacy /\ \E v \in versions : version_parse(v)[1] = "InvalidVersion"
     THEN <<"raise", "InvalidVersion">>
     ELSE <<"ok", SortedDescKey(versions)>>

\* validate_file_schema(file_path, "v" + schema_version)
validate_file_schema(dirs, file, schema_version) ==
  /\ file.present
  /\ VPrefixed(schema_version) \in dirs
  /\ VersionOfDir(VPrefixed(schema_version)) \in file.conf

\* The files a validate_files_backwards call is asked about:
\* REQUIRED_PROJECT_FILES for the project scope, USER_FILES for the user scope.
FileMapping(s) == IF s = PROJECT_SCOPE THEN <<"tasktree.yml">> ELSE UserFiles

\* The version loop of validate_files_backwards.
RECURSIVE FilesBackwardsLoop(_, _, _, _, _, _)
FilesBackwardsLoop(dirs, sc, existing, versions, i, errors) ==
  IF i > Len(versions)
  THEN [version |-> versions[Len(versions)], errors |-> errors]
  ELSE LET version_errors ==
             SelectSeq([k \in 1..Len(existing) |-> <<existing[k], versions[i]>>],
                       LAMBDA e : ~validate_file_schema(dirs, sc.files[e[1]], e[2]))
       IN IF version_errors = <<>>
          THEN [version |-> versions[i], errors |-> <<>>]
          ELSE FilesBackwardsLoop(dirs, sc, existing, versions, i + 1,
                                  errors \o version_errors)

\* DataCore.validate_files_backwards(data_dir, file_mapping), for a schema
\* root that holds version directories only.
validate_files_backwards(dirs, sc, mapping) ==
  LET existing_files == SelectSeq(mapping, LAMBDA f : sc.dir /\ sc.files[f].present)
      schema_versions == get_schema_versions(DirEntries(dirs), FALSE)[2]
  IN IF existing_files = <<>> THEN [version |-> ZeroVersion, errors |-> <<>>]
     ELSE IF schema_versions = <<>>
          THEN [version |-> ZeroVersion, errors |-> << <<"No schema versions available">> >>]
     ELSE FilesBackwardsLoop(dirs, sc, existing_files, schema_versions, 1, <<>>)

\* DataCore.validate_project_data / validate_user_data call it per scope.
datacore_validate ==
  /\ vfb = [s \in Scopes |-> NoResult]
  /\ vfb' = [s \in Scopes |-> validate_files_backwards(schemaDirs, scope[s], FileMapping(s))]
  /\ UNCHANGED <<schemaDirs, scope, dpc, dscope, found, tried, dexc>>

\* A call of DataCore.get_schema_versions() on a schema root holding the
\* version directories schemaDirs and the entries schemaOther.
VARIABLES
  schemaOther,  \* entries of the schema root that are not version directories
  gsv           \* what the get_schema_versions call produced

catVars == <<schemaOther, gsv>>
NotCalled == <<"idle">>

InitCatalog ==
  /\ schemaDirs \in SUBSET DirNames
  /\ schemaOther \in SUBSET OtherEntries
  /\ gsv = NotCalled

CatalogIdle ==
  /\ schemaOther = {}
  /\ gsv = NotCalled

datacore_get_schema_versions ==
  /\ gsv = NotCalled
  /\ \E legacy \in BOOLEAN :
       gsv' = get_schema_versions(DirEntries(schemaDirs) \cup schemaOther, legacy)
  /\ UNCHANGED <<schemaDirs, schemaOther>>

\* ------------------------------------ DataCore (prismtm/data/core.py)
\* validate_scope_schema(scope, version): every *.yml file of the data
\* directory validates against its schema in the directory "v" + version.
validate_scope_schema(dirs, sc, version) ==
  /\ sc.dir
  /\ \A f \in DOMAIN sc.files :
       sc.files[f].present => ProbeFile(dirs, version, sc, f) = "ok"

validate_context_projectonly(dirs, sc, project_version, user_version, app) ==
  IF project_version # app THEN "MigrationNeededError"
  ELSE IF ~validate_scope_schema(dirs, sc[USER_SCOPE], user_version) THEN "FatalError"
  ELSE IF ~validate_scope_schema(dirs, sc[PROJECT_SCOPE], project_version) THEN "FatalError"
  ELSE "True"

\* DataCore.validate_context() once find_schema_versions has returned
\* (project_version, user_version): the exception raised, or "True".
validate_context(dirs, sc, project_version, user_version, app) ==
  IF project_version # app THEN "MigrationNeededError"
  ELSE IF user_version # app THEN "MigrationNeededError"
  ELSE IF ~validate_scope_schema(dirs, sc[USER_SCOPE], user_version) THEN "FatalError"
  ELSE IF ~validate_scope_schema(dirs, sc[PROJECT_SCOPE], project_version) THEN "FatalError"
  ELSE "True"

VARIABLES
  app_version,  \* APP_SCHEMA_VERSION, the constant of prismtm/version.py
  vctx          \* how the validate_context call ended

ctxVars == <<app_version, vctx>>

\* prismtm/version.py fixes APP_SCHEMA_VERSION to one version string.
InitContext ==
  /\ app_version \in {VersionStr(v) : v \in Versions}
  /\ vctx = "none"

ContextIdle ==
  /\ app_version = ZeroVersion
  /\ vctx = "none"

\* The rest of DataCore.validate_context after its find_schema_versions
\* call: an exception of that call leaves validate_context as it is.
datacore_validate_context ==
  /\ dpc \in {"returned", "raised"}
  /\ vctx = "none"
  /\ vctx' = IF dpc = "raised" THEN dexc
             ELSE validate_context(schemaDirs, scope, found[PROJECT_SCOPE],
                                   found[USER_SCOPE], app_version)
  /\ UNCHANGED <<detVars, app_version>>

\* --------------------- DataCore.validate_project_data (prismtm/data.py)
REQUIRED_PROJECT_FILES == <<"tasktree.yml">>
OPTIONAL_PROJECT_FILES == <<"bugs.yml", "time.yml">>
PROJECT_FILES == REQUIRED_PROJECT_FILES \o OPTIONAL_PROJECT_FILES

VARIABLES
  time_yml,     \* .prsm/time.yml exists
  vpd           \* what the validate_project_data call returned

vpdVars == <<time_yml, vpd>>
NotValidated == [is_valid |-> FALSE, detected_version |-> <<>>, errors |-> << <<"none">> >>]

\* file_path.exists() for a file of the project data directory
ProjectFileExists(sc, time, f) ==
  sc.dir /\ (IF f = "time.yml" THEN time ELSE sc.files[f].present)

\* check_required_files_exist(PROJECT_DATA_DIR, file_mapping)[1]
missing_files(sc, time, file_mapping) ==
  SelectSeq(file_mapping, LAMBDA f : ~ProjectFileExists(sc, time, f))

\* The entry appended for a missing file; e.startswith("Optional") holds
\* of these entries only.
OptionalMissing == "Optional file missing: "
MissingEntries(missing) == [k \in 1..Len(missing) |-> <<OptionalMissing, missing[k]>>]

\* DataCore.validate_project_data()
validate_project_data(dirs, sc, time) ==
  LET r == validate_files_backwards(dirs, sc, REQUIRED_PROJECT_FILES)
      errors == r.errors \o MissingEntries(missing_files(sc, time, PROJECT_FILES))
  IN [is_valid |-> Len(SelectSeq(errors, LAMBDA e : e[1] # OptionalMissing)) = 0,
      detected_version |-> r.version,
      errors |-> errors]

InitProjectData ==
  /\ schemaDirs \in SUBSET DirNames
  /\ scope \in [Scopes -> UNION {ScopeStates(s) : s \in Scopes}]
  /\ scope[PROJECT_SCOPE] \in ScopeStates(PROJECT_SCOPE)
  /\ scope[PROJECT_SCOPE].meta = Absent
  /\ scope[USER_SCOPE] = [dir |-> FALSE, files |-> [f \in Range(UserFiles) |-> NoFile],
                          meta |-> Absent]
  /\ time_yml \in BOOLEAN
  /\ scope[PROJECT_SCOPE].dir \/ ~time_yml
  /\ vpd = NotValidated

ProjectDataIdle ==
  /\ time_yml = FALSE
  /\ vpd = NotValidated

datacore_validate_project_data ==
  /\ vpd = NotValidated
  /\ vpd' = validate_project_data(schemaDirs, scope[PROJECT_SCOPE], time_yml)
  /\ UNCHANGED <<schemaDirs, scope, time_yml>>

\* A run of find_schema_versions on a project whose schema directories and
\* data files may be damaged; there is no meta.json and no user data.
InitProbe ==
  /\ schemaDirs \in SUBSET DirNames
  /\ scope \in [Scopes -> UNION {ScopeStates(s) : s \in Scopes}]
  /\ scope[PROJECT_SCOPE] \in ScopeStates(PROJECT_SCOPE)
  /\ scope[PROJECT_SCOPE].dir
  /\ scope[PROJECT_SCOPE].meta = Absent
  /\ scope[USER_SCOPE] = [dir |-> FALSE, files |-> [f \in Range(UserFiles) |-> NoFile],
                          meta |-> Absent]
  /\ faults \in [badjson : SUBSET schemaDirs, unreadable : SUBSET schemaDirs,
                  badyaml : SUBSET YamlFiles(PROJECT_SCOPE)]
  /\ faults.badjson \cap faults.unreadable = {}
  /\ dpc = "scan"
  /\ dscope = PROJECT_SCOPE
  /\ found = [s \in Scopes |-> Unset]
  /\ tried = [s \in Scopes |-> NotRun]
  /\ dexc = "none"
  /\ vfb = [s \in Scopes |-> NoResult]

NextDetect ==
  \/ (fsv_meta /\ UNCHANGED ctxVars)
  \/ (fsv_scan /\ UNCHANGED ctxVars)
  \/ (datacore_validate /\ UNCHANGED ctxVars)
  \/ datacore_validate_context

\* ==================================================== migration engine
\* (prismtm/migrate.py)  Version directory names keep their "v" prefix here.
V000 == VPrefixed(ZeroVersion)
MigDirNames == {VPrefixed(VersionStr(v)) : v \in Versions} \cup {V000}

\* [int(s) for s in v[1:].split('.')]
IntKey(name) ==
  LET parts == SplitDots(Tail(name)) IN [i \in 1..Len(parts) |-> ToInt(parts[i])]

\* Python's ordering of lists of int.
ListLess(a, b) ==
  \/ Len(a) < Len(b) /\ SubSeq(b, 1, Len(a)) = a
  \/ \E i \in 1..Len(a) :
       /\ i <= Len(b)
       /\ a[i] < b[i]
       /\ \A j \in 1..(i - 1) : a[j] = b[j]

\* sorted(versions, key=lambda v: [int(s) for s in v[1:].split('.')])
RECURSIVE SortedAscKey(_)
SortedAscKey(S) ==
  IF S = {} THEN <<>>
  ELSE LET m == CHOOSE x \in S : \A y \in S \ {x} : ~ListLess(IntKey(y), IntKey(x))
       IN <<m>> \o SortedAscKey(S \ {m})

\* _discover_versions() over the directories of SCHEMA_DIR
discover_versions(dirs) == SortedAscKey({d \in dirs : d # <<>> /\ d[1] = 118})

\* f"{from_version}_to_{to_version}"
ToSep == <<95, 116, 111, 95>>
MigrationKey(from_version, to_version) == from_version \o ToSep \o to_version

\* migration_key.split('_to_')
SepAt(key) ==
  CHOOSE i \in 1..Len(key) :
    /\ i + 3 <= Len(key)
    /\ SubSeq(key, i, i + 3) = ToSep
    /\ \A j \in 1..(i - 1) : j + 3 > Len(key) \/ SubSeq(key, j, j + 3) # ToSep
KeyFrom(key) == SubSeq(key, 1, SepAt(key) - 1)
KeyTo(key) == SubSeq(key, SepAt(key) + 4, Len(key))

\* The migration scripts that schemas/migrations may hold: one per ordered
\* pair of versions (migration_generator.py names them by that pair).
MigrationKeys ==
  {MigrationKey(pair[1], pair[2]) :
     pair \in {q \in MigDirNames \X MigDirNames : ListLess(IntKey(q[1]), IntKey(q[2]))}}

\* available_versions.index(current_version), 0 for ValueError
IndexOf(q, x) ==
  IF \E i \in 1..Len(q) : q[i] = x
  THEN CHOOSE i \in 1..Len(q) : q[i] = x /\ \A j \in 1..(i - 1) : q[j] # x
  ELSE 0

\* The loop of get_migration_path over range(i, len(available_versions) - 1):
\* a pair without a registered migration is skipped with a warning.
RECURSIVE PathLoop(_, _, _)
PathLoop(av, migs, i) ==
  IF i > Len(av) - 1 THEN <<>>
  ELSE LET migration_key == MigrationKey(av[i], av[i + 1])
       IN (IF migration_key \in migs THEN <<migration_key>> ELSE <<>>)
          \o PathLoop(av, migs, i + 1)

get_migration_path_fromnext(av, migs, current_version) ==
  LET current_index == IndexOf(av, current_version) IN
    IF current_index = 0 THEN <<>> ELSE PathLoop(av, migs, current_index + 1)

\* MigrationEngine.get_migration_path(current_version)
get_migration_path(av, migs, current_version) ==
  LET current_index == IndexOf(av, current_version) IN
    IF current_index = 0 THEN <<>> ELSE PathLoop(av, migs, current_index)

VARIABLES
  available_versions,  \* self.available_versions
  migrations,          \* keys of self.migrations
  gmp                  \* a get_migration_path call: its argument and result

engineVars == <<available_versions, migrations, gmp>>
NoCall == [current_version |-> <<>>, path |-> <<>>]

\* MigrationEngine.__init__
InitEngine ==
  /\ \E dirs \in SUBSET MigDirNames : available_versions = discover_versions(dirs)
  /\ migrations \in SUBSET MigrationKeys
  /\ gmp = NoCall

EngineIdle ==
  /\ available_versions = <<>>
  /\ migrations = {}
  /\ gmp = NoCall

call_get_migration_path ==
  /\ gmp = NoCall
  /\ \E current_version \in MigDirNames :
       gmp' = [current_version |-> current_version,
               path |-> get_migration_path(available_versions, migrations, current_version)]
  /\ UNCHANGED <<available_versions, migrations>>

\* ------------------------------------------------ migrate_file and callers
\* Data files are YAML block mappings of scalars; a file may carry comments.
COMMENT == <<"c", "#">>
ScalarOf(k) ==
  CASE k[1] = "i" -> <<"int", k[2]>>
    [] k[1] = "l" /\ k[2] = "null" -> Null
    [] k[1] = "l" /\ k[2] = "true" -> <<"bool", TRUE>>
    [] k[1] = "l" /\ k[2] = "false" -> <<"bool", FALSE>>
    [] OTHER -> <<"str", k[2]>>

RECURSIVE YamlPairs(_, _, _)
YamlPairs(t, i, acc) ==
  IF i > Len(t) THEN <<"ok", <<"map", acc>> >>
  ELSE IF /\ i + 2 <= Len(t)
          /\ t[i][1] = "s"
          /\ t[i + 1] = COLON
          /\ t[i + 2][1] \in {"l", "i", "s"}
       THEN YamlPairs(t, i + 3, PutEntry(acc, t[i][2], ScalarOf(t[i + 2])))
       ELSE <<"YAMLError">>

\* yaml.safe_load(f): <<"ok", data>> or <<"YAMLError">>
yaml_safe_load(text) ==
  LET t == SelectSeq(text, LAMBDA k : k[1] # "c") IN
    IF t = <<>> THEN <<"ok", Null>>
    ELSE IF t = <<LBRACE, RBRACE>> THEN <<"ok", <<"map", <<>> >> >>
    ELSE YamlPairs(t, 1, <<>>)

\* Contents a data file may have before the migration: a commented
\* mapping, and text that is not YAML.
PreTexts == { <<COMMENT, <<"s", "a">>, COLON, <<"i", 1>> >>, <<COLON>> }

\* The migration classes written for this catalog: upgrade() adds the field
\* that the step's target schema introduces.
VersionLabel(name) ==
  CASE name = V000 -> "v0.0.0"
    [] name = VPrefixed(VersionStr(<<0, 9, 0>>)) -> "v0.9.0"
    [] OTHER -> "v0.10.0"
upgrade(migration_key, d) ==
  <<"map", PutEntry(d[2], VersionLabel(KeyTo(migration_key)), Int1)>>

\* files_to_migrate of migrate_project_files / migrate_user_files
ProjectMigFiles == <<"project.yml", "bugs.yml", "tasks.yml">>
UserMigFiles == <<"global_bugs.yml", "global_projects.yml">>
files_to_migrate(call) == IF call = "project" THEN ProjectMigFiles ELSE UserMigFiles

VARIABLES
  mcall,           \* "project": migrate_project_files, "user": migrate_user_files
  mdirExists,      \* LOCAL_PROJECT_DIR / GLOBAL_DATA_DIR exists
  mfiles,          \* the data files of the scope
  mbak,            \* their .bak copies
  mpc,             \* position of the call
  midx,            \* index of file_name in files_to_migrate
  migration_path,  \* local of migrate_file
  mstep,           \* index of migration_key in migration_path
  mdata,           \* local data of migrate_file
  pending,         \* what yaml.dump still has to write
  success,         \* local of migrate_*_files
  mresult,         \* what migrate_*_files returned
  pre,             \* the data files before the call
  outcome,         \* per file: how its migrate_file call ended
  cause,           \* per file: what raised inside the try block
  target_version,  \* argument of migrate_*_files
  mruns            \* number of migrate_*_files calls made, this one included

migVars == <<mcall, mdirExists, mfiles, mbak, mpc, midx, migration_path, mstep,
             mdata, pending, success, mresult, pre, outcome, cause, target_version,
             mruns>>

MigNames == Range(files_to_migrate(mcall))
file_name == files_to_migrate(mcall)[midx]

InitMigrate ==
  /\ mcall \in {"project", "user"}
  /\ mdirExists \in BOOLEAN
  /\ mfiles \in [MigNames -> {Absent} \cup {File(t) : t \in PreTexts}]
  /\ mdirExists \/ \A f \in MigNames : mfiles[f] = Absent
  /\ mbak = [f \in MigNames |-> Absent]
  /\ mpc = "call"
  /\ midx = 1
  /\ migration_path = <<>>
  /\ mstep = 1
  /\ mdata = Null
  /\ pending = <<>>
  /\ success = TRUE
  /\ mresult = "none"
  /\ pre = mfiles
  /\ outcome = [f \in MigNames |-> "none"]
  /\ cause = [f \in MigNames |-> "none"]
  /\ target_version \in MigDirNames
  /\ mruns = 1

MigrateIdle ==
  /\ mcall = "none"
  /\ mdirExists = FALSE
  /\ mfiles = <<>>
  /\ mbak = <<>>
  /\ mpc = "idle"
  /\ midx = 1
  /\ migration_path = <<>>
  /\ mstep = 1
  /\ mdata = Null
  /\ pending = <<>>
  /\ success = TRUE
  /\ mresult = "none"
  /\ pre = <<>>
  /\ outcome = <<>>
  /\ cause = <<>>
  /\ target_version = <<>>
  /\ mruns = 0

\* migrate_project_files / migrate_user_files up to the for loop
mig_call ==
  /\ mpc = "call"
  /\ IF mdirExists
     THEN mpc' = "loop" /\ UNCHANGED mresult
     ELSE mpc' = "returned" /\ mresult' = "False"
  /\ midx' = 1
  /\ success' = TRUE
  /\ UNCHANGED <<mcall, mdirExists, mfiles, mbak, migration_path, mstep, mdata,
                 pending, pre, outcome, cause>>
  /\ UNCHANGED <<engineVars, target_version, mruns>>

\* migrate_file(file_path, 'v0.0.0') returning before anything is copied
mig_file_skip ==
  /\ mpc = "loop"
  /\ midx <= Len(files_to_migrate(mcall))
  /\ \/ /\ ~mfiles[file_name].exists
        /\ outcome' = [outcome EXCEPT ![file_name] = "missing"]
     \/ /\ mfiles[file_name].exists
        /\ get_migration_path(available_versions, migrations, V000) = <<>>
        /\ outcome' = [outcome EXCEPT ![file_name] = "nopath"]
  /\ midx' = midx + 1
  /\ UNCHANGED <<mcall, mdirExists, mfiles, mbak, mpc, migration_path, mstep, mdata,
                 pending, success, mresult, pre, cause>>
  /\ UNCHANGED <<engineVars, target_version, mruns>>

\* shutil.copy2(file_path, backup_path)
mig_backup_unconditional ==
  /\ mpc = "loop"
  /\ midx <= Len(files_to_migrate(mcall))
  /\ mfiles[file_name].exists
  /\ migration_path' = get_migration_path(available_versions, migrations, V000)
  /\ mbak' = [mbak EXCEPT ![file_name] = mfiles[file_name]]
  /\ mpc' = "try"
  /\ UNCHANGED <<mcall, mdirExists, mfiles, midx, mstep, mdata, pending, success,
                 mresult, pre, outcome, cause>>
  /\ UNCHANGED <<engineVars, target_version, mruns>>

mig_backup ==
  /\ mpc = "loop"
  /\ midx <= Len(files_to_migrate(mcall))
  /\ mfiles[file_name].exists
  /\ LET path == get_migration_path(available_versions, migrations, V000) IN
       /\ path # <<>>
       /\ migration_path' = path
  /\ mbak' = [mbak EXCEPT ![file_name] = mfiles[file_name]]
  /\ mpc' = "try"
  /\ UNCHANGED <<mcall, mdirExists, mfiles, midx, mstep, mdata, pending, success,
                 mresult, pre, outcome, cause>>
  /\ UNCHANGED <<engineVars, target_version, mruns>>

\* shutil.copy2 raises (the .bak cannot be created): the exception leaves
\* migrate_file and is caught in the loop of migrate_*_files.
mig_backup_fails ==
  /\ mpc = "loop"
  /\ midx <= Len(files_to_migrate(mcall))
  /\ mfiles[file_name].exists
  /\ get_migration_path(available_versions, migrations, V000) # <<>>
  /\ success' = FALSE
  /\ outcome' = [outcome EXCEPT ![file_name] = "error"]
  /\ midx' = midx + 1
  /\ UNCHANGED <<mcall, mdirExists, mfiles, mbak, mpc, migration_path, mstep, mdata,
                 pending, mresult, pre, cause>>
  /\ UNCHANGED <<engineVars, target_version, mruns>>

\* data = yaml.safe_load(f)
mig_load ==
  /\ mpc = "try"
  /\ LET r == yaml_safe_load(mfiles[file_name].text) IN
       IF r[1] = "ok"
       THEN /\ mdata' = r[2]
            /\ mstep' = 1
            /\ mpc' = "upgrade"
            /\ UNCHANGED cause
       ELSE /\ mpc' = "except"
            /\ cause' = [cause EXCEPT ![file_name] = "load"]
            /\ UNCHANGED <<mdata, mstep>>
  /\ UNCHANGED <<mcall, mdirExists, mfiles, mbak, midx, migration_path, pending, success,
                 mresult, pre, outcome>>
  /\ UNCHANGED <<engineVars, target_version, mruns>>

\* data = migration_instance.upgrade(data)
mig_upgrade ==
  /\ mpc = "upgrade"
  /\ mstep <= Len(migration_path)
  /\ mdata' = upgrade(migration_path[mstep], mdata)
  /\ mstep' = mstep + 1
  /\ UNCHANGED <<mcall, mdirExists, mfiles, mbak, mpc, midx, migration_path, pending,
                 success, mresult, pre, outcome, cause>>
  /\ UNCHANGED <<engineVars, target_version, mruns>>

\* migration_instance.upgrade(data) raises
mig_upgrade_raises ==
  /\ mpc = "upgrade"
  /\ mstep <= Len(migration_path)
  /\ mpc' = "except"
  /\ cause' = [cause EXCEPT ![file_name] = "upgrade"]
  /\ UNCHANGED <<mcall, mdirExists, mfiles, mbak, midx, migration_path, mstep, mdata,
                 pending, success, mresult, pre, outcome>>
  /\ UNCHANGED <<engineVars, target_version, mruns>>

\* open(file_path, 'w') truncates the file
mig_open ==
  /\ mpc = "upgrade"
  /\ mstep > Len(migration_path)
  /\ mfiles' = [mfiles EXCEPT ![file_name] = File(<<>>)]
  /\ pending' = YamlChunks(mdata)
  /\ mpc' = "dump"
  /\ UNCHANGED <<mcall, mdirExists, mbak, midx, migration_path, mstep, mdata, success,
                 mresult, pre, outcome, cause>>
  /\ UNCHANGED <<engineVars, target_version, mruns>>

\* yaml.dump(data, f, ...) writes the next piece
mig_write_chunk ==
  /\ mpc = "dump"
  /\ pending # <<>>
  /\ mfiles' = [mfiles EXCEPT ![file_name] = File(mfiles[file_name].text \o <<Head(pending)>>)]
  /\ pending' = Tail(pending)
  /\ UNCHANGED <<mcall, mdirExists, mbak, mpc, midx, migration_path, mstep, mdata, success,
                 mresult, pre, outcome, cause>>
  /\ UNCHANGED <<engineVars, target_version, mruns>>

\* a write of yaml.dump raises OSError
mig_dump_raises ==
  /\ mpc = "dump"
  /\ pending # <<>>
  /\ mpc' = "except"
  /\ cause' = [cause EXCEPT ![file_name] = "dump"]
  /\ UNCHANGED <<mcall, mdirExists, mfiles, mbak, midx, migration_path, mstep, mdata,
                 pending, success, mresult, pre, outcome>>
  /\ UNCHANGED <<engineVars, target_version, mruns>>

\* the with block closes the file; "Successfully migrated"
mig_close ==
  /\ mpc = "dump"
  /\ pending = <<>>
  /\ outcome' = [outcome EXCEPT ![file_name] = "migrated"]
  /\ mpc' = "finally"
  /\ UNCHANGED <<mcall, mdirExists, mfiles, mbak, midx, migration_path, mstep, mdata,
                 pending, success, mresult, pre, cause>>
  /\ UNCHANGED <<engineVars, target_version, mruns>>

mig_except_abort ==
  /\ mpc = "except"
  /\ IF mbak[file_name].exists
     THEN mfiles' = [mfiles EXCEPT ![file_name] = mbak[file_name]]
     ELSE UNCHANGED mfiles
  /\ outcome' = [outcome EXCEPT ![file_name] = "rolled_back"]
  /\ mpc' = "returned"
  /\ mresult' = "False"
  /\ UNCHANGED <<mcall, mdirExists, mbak, midx, migration_path, mstep, mdata, pending,
                 success, pre, cause>>
  /\ UNCHANGED <<engineVars, target_version, mruns>>

\* except Exception: restore the file from the .bak copy
mig_except ==
  /\ mpc = "except"
  /\ IF mbak[file_name].exists
     THEN mfiles' = [mfiles EXCEPT ![file_name] = mbak[file_name]]
     ELSE UNCHANGED mfiles
  /\ outcome' = [outcome EXCEPT ![file_name] = "rolled_back"]
  /\ mpc' = "finally"
  /\ UNCHANGED <<mcall, mdirExists, mbak, midx, migration_path, mstep, mdata, pending,
                 success, mresult, pre, cause>>
  /\ UNCHANGED <<engineVars, target_version, mruns>>

mig_finally_keepbak ==
  /\ mpc = "finally"
  /\ midx' = midx + 1
  /\ mpc' = "loop"
  /\ UNCHANGED <<mcall, mdirExists, mfiles, mbak, migration_path, mstep, mdata, pending,
                 success, mresult, pre, outcome, cause>>
  /\ UNCHANGED <<engineVars, target_version, mruns>>

\* finally: os.remove(backup_path); migrate_file returns to the loop
mig_finally ==
  /\ mpc = "finally"
  /\ mbak' = [mbak EXCEPT ![file_name] = Absent]
  /\ midx' = midx + 1
  /\ mpc' = "loop"
  /\ UNCHANGED <<mcall, mdirExists, mfiles, migration_path, mstep, mdata, pending,
                 success, mresult, pre, outcome, cause>>
  /\ UNCHANGED <<engineVars, target_version, mruns>>

\* return success
mig_return ==
  /\ mpc = "loop"
  /\ midx > Len(files_to_migrate(mcall))
  /\ mresult' = IF success THEN "True" ELSE "False"
  /\ mpc' = "returned"
  /\ UNCHANGED <<mcall, mdirExists, mfiles, mbak, midx, migration_path, mstep, mdata,
                 pending, success, pre, outcome, cause>>
  /\ UNCHANGED <<engineVars, target_version, mruns>>

\* The caller runs the same migration again right after a call that
\* returned True.
mig_again ==
  /\ mpc = "returned"
  /\ mresult = "True"
  /\ mruns < MaxRuns
  /\ mruns' = mruns + 1
  /\ mpc' = "call"
  /\ midx' = 1
  /\ migration_path' = <<>>
  /\ mstep' = 1
  /\ mdata' = Null
  /\ pending' = <<>>
  /\ success' = TRUE
  /\ mresult' = "none"
  /\ pre' = mfiles
  /\ outcome' = [f \in MigNames |-> "none"]
  /\ cause' = [f \in MigNames |-> "none"]
  /\ UNCHANGED <<mcall, mdirExists, mfiles, mbak, target_version>>
  /\ UNCHANGED engineVars

\* The process is killed.
mig_kill ==
  /\ mpc \in {"loop", "try", "upgrade", "dump", "except", "finally"}
  /\ mpc' = "killed"
  /\ UNCHANGED <<mcall, mdirExists, mfiles, mbak, midx, migration_path, mstep, mdata,
                 pending, success, mresult, pre, outcome, cause>>
  /\ UNCHANGED <<engineVars, target_version, mruns>>

NextMigrate ==
  \/ mig_call
  \/ mig_file_skip
  \/ mig_backup
  \/ mig_backup_fails
  \/ mig_load
  \/ mig_upgrade
  \/ mig_upgrade_raises
  \/ mig_open
  \/ mig_write_chunk
  \/ mig_dump_raises
  \/ mig_close
  \/ mig_except
  \/ mig_finally
  \/ mig_return
  \/ mig_again
  \/ mig_kill

\* ================================================================= backups
\* (prismtm/data/backup.py)  .prsm holds the project data files and the
\* directory backups; every backup is a directory .prsm/backups/<backup_id>.
BackupsName == <<98, 97, 99, 107, 117, 112, 115>>
PreRestore == <<112, 114, 101, 95, 114, 101, 115, 116, 111, 114, 101, 95>>

\* datetime.now().strftime("%Y%m%d_%H%M%S") at clock second t
Timestamp(t) == <<50, 48, 50, 54, 48, 49, 48, 49, 95, 48, 48, 48, 48, 48>> \o Dec(t)

IsAlnum(c) == c \in (48..57) \cup (65..90) \cup (97..122)

\* _generate_backup_id(custom_name); None and "" are both <<>>
generate_backup_id(t, custom_name) ==
  IF custom_name # <<>>
  THEN Timestamp(t) \o <<95>>
       \o SelectSeq(custom_name, LAMBDA c : IsAlnum(c) \/ c \in {45, 95})
  ELSE Timestamp(t)

\* Labels a caller may pass as backup_name: none, and "n 1".
BackupNames == {<<>>, <<110, 32, 49>>}

DataNames == Range(ProjectFiles)
DataA == YamlChunks(<<"map", << <<"a", Int1>> >> >>)
DataB == YamlChunks(<<"map", << <<"a", StrA>> >> >>)
DataTexts == {DataA, DataB}
NoFiles == [f \in DataNames |-> Absent]

\* datetime.now().isoformat() at clock second t
isoformat(t) ==
  <<50, 48, 50, 54, 45, 48, 49, 45, 48, 49, 84, 48, 48, 58, 48, 48, 58, 48>> \o Dec(t)

\* _create_backup_metadata(backup_id, "project", PROJECT_BACKUP_DIR, files, name)
create_backup_metadata(backup_id, t, files_copied, custom_name) ==
  [backup_id |-> backup_id,
   backup_type |-> "project",
   created_at |-> isoformat(t),
   custom_name |-> custom_name,
   files_count |-> Cardinality(files_copied),
   files |-> files_copied]

\* The directory .prsm/backups/<backup_id> after backup_project has copied the
\* files of .prsm into it (mkdir exist_ok=True keeps what a directory of
\* that name already held) and has written backups.json.
BackupFolder(dirs, files, t, backup_name) ==
  LET backup_id == generate_backup_id(t, backup_name)
      old == IF \E e \in dirs : e.id = backup_id
             THEN (CHOOSE e \in dirs : e.id = backup_id).files
             ELSE NoFiles
      source_files == {f \in DataNames : files[f].exists}
  IN [id |-> backup_id,
      files |-> [f \in DataNames |-> IF files[f].exists THEN files[f] ELSE old[f]],
      meta |-> create_backup_metadata(backup_id, t, source_files, backup_name),
      json |-> "ok"]

\* .prsm/backups after backup_project(backup_name)
backup_project(dirs, files, t, backup_name) ==
  LET folder == BackupFolder(dirs, files, t, backup_name)
  IN {e \in dirs : e.id # folder.id} \cup {folder}

VARIABLES
  prsm,            \* the data files of .prsm
  backups_exists,  \* .prsm/backups exists
  backup_dirs,     \* the directories inside .prsm/backups
  backup_loose,    \* the plain files inside .prsm/backups
  now,             \* the clock, in seconds
  bpc,             \* position inside restore_project_backup
  rid,             \* backup_id of the running restore
  rflag,           \* create_safety_backup of the running restore
  ncalls,          \* number of BackupManager calls made
  bresult,         \* how the last call ended
  snap,            \* the last backup_project call: its id and the files it saw
  edited,          \* data files changed since that call
  listing,         \* what the last list_project_backups call returned
  cleanup_ret,     \* keep_count and return value of the last cleanup_old_backups
  pre_restore      \* the data files as the running restore found them

bkVars == <<prsm, backups_exists, backup_dirs, backup_loose, now, bpc, rid, rflag,
            ncalls, bresult, snap, edited, listing, cleanup_ret, pre_restore>>

NoCleanup == [keep_count |-> 0, deleted_count |-> 0]

NoOp == [op |-> "none", id |-> <<>>, exc |-> "none"]
NoSnap == [id |-> <<>>, files |-> NoFiles]

InitBackup ==
  /\ prsm \in [DataNames -> {Absent, File(DataA)}]
  /\ backups_exists \in BOOLEAN
  /\ backup_dirs = {}
  /\ backup_loose = NoFiles
  /\ now = 0
  /\ bpc = "idle"
  /\ rid = <<>>
  /\ rflag = FALSE
  /\ ncalls = 0
  /\ bresult = NoOp
  /\ snap = NoSnap
  /\ edited = {}
  /\ listing = <<>>
  /\ cleanup_ret = NoCleanup
  /\ pre_restore = NoFiles

BackupIdle ==
  /\ prsm = NoFiles
  /\ backups_exists = FALSE
  /\ backup_dirs = {}
  /\ backup_loose = NoFiles
  /\ now = 0
  /\ bpc = "idle"
  /\ rid = <<>>
  /\ rflag = FALSE
  /\ ncalls = 0
  /\ bresult = NoOp
  /\ snap = NoSnap
  /\ edited = {}
  /\ listing = <<>>
  /\ cleanup_ret = NoCleanup
  /\ pre_restore = NoFiles

\* A second passes.
bk_tick ==
  /\ now < MaxClock
  /\ now' = now + 1
  /\ UNCHANGED <<prsm, backups_exists, backup_dirs, backup_loose, bpc, rid, rflag,
                 ncalls, bresult, snap, edited, listing, cleanup_ret, pre_restore>>

\* The user's work changes a data file.
bk_edit ==
  /\ bpc = "idle"
  /\ \E f \in DataNames : \E t \in DataTexts :
       /\ prsm[f].exists
       /\ prsm[f].text # t
       /\ prsm' = [prsm EXCEPT ![f] = File(t)]
       /\ edited' = edited \cup {f}
  /\ UNCHANGED <<backups_exists, backup_dirs, backup_loose, now, bpc, rid, rflag,
                 ncalls, bresult, snap, listing, cleanup_ret, pre_restore>>

\* BackupManager.backup_project(backup_name)
bk_backup_project ==
  /\ bpc = "idle"
  /\ ncalls < MaxCalls
  /\ ncalls' = ncalls + 1
  /\ \E backup_name \in BackupNames :
       IF ~backups_exists
       THEN /\ bresult' = [op |-> "backup", id |-> <<>>, exc |-> "FileNotFoundError"]
            /\ UNCHANGED <<backup_dirs, snap, edited>>
       ELSE /\ backup_dirs' = backup_project(backup_dirs, prsm, now, backup_name)
            /\ bresult' = [op |-> "backup", id |-> generate_backup_id(now, backup_name),
                           exc |-> "none"]
            /\ snap' = [id |-> generate_backup_id(now, backup_name), files |-> prsm]
            /\ edited' = {}
  /\ UNCHANGED <<prsm, backups_exists, backup_loose, now, bpc, rid, rflag, listing,
                 cleanup_ret, pre_restore>>

\* restore_project_backup(backup_id, create_safety_backup): the lookup of
\* .prsm/backups/<backup_id>
bk_restore_begin ==
  /\ bpc = "idle"
  /\ ncalls < MaxCalls
  /\ ncalls' = ncalls + 1
  /\ \E backup_id \in {e.id : e \in backup_dirs} \cup {Timestamp(9)} :
     \E create_safety_backup \in BOOLEAN :
       IF \E e \in backup_dirs : e.id = backup_id
       THEN /\ rid' = backup_id
            /\ rflag' = create_safety_backup
            /\ bpc' = "restore_safety"
            /\ pre_restore' = prsm
            /\ UNCHANGED bresult
       ELSE /\ bresult' = [op |-> "restore", id |-> backup_id, exc |-> "FileNotFoundError"]
            /\ UNCHANGED <<rid, rflag, bpc, pre_restore>>
  /\ UNCHANGED <<prsm, backups_exists, backup_dirs, backup_loose, now, snap, edited,
                 listing, cleanup_ret>>

\* self.backup_project(f"pre_restore_{backup_id}")
bk_restore_safety ==
  /\ bpc = "restore_safety"
  /\ IF rflag /\ backups_exists
     THEN backup_dirs' = backup_project(backup_dirs, prsm, now, PreRestore \o rid)
     ELSE UNCHANGED backup_dirs
  /\ bpc' = "restore_remove"
  /\ UNCHANGED <<prsm, backups_exists, backup_loose, now, rid, rflag, ncalls, bresult,
                 snap, edited, listing, cleanup_ret, pre_restore>>

remove_existing_projectdir(files, exists, dirs, loose) ==
  [prsm |-> NoFiles, backups_exists |-> TRUE, backup_dirs |-> dirs, backup_loose |-> loose]

\* "Remove existing files": the loop runs over PROJECT_BACKUP_DIR.iterdir(),
\* unlinks every file and removes every directory not named "backups";
\* the files of .prsm itself are not in that listing.
remove_existing(files, exists, dirs, loose) ==
  IF exists
  THEN [prsm |-> files,
        backups_exists |-> TRUE,
        backup_dirs |-> {e \in dirs : e.id = BackupsName},
        backup_loose |-> NoFiles]
  ELSE [prsm |-> files, backups_exists |-> TRUE, backup_dirs |-> dirs,
        backup_loose |-> loose]

bk_restore_remove ==
  /\ bpc = "restore_remove"
  /\ LET r == remove_existing(prsm, backups_exists, backup_dirs, backup_loose) IN
       /\ prsm' = r.prsm
       /\ backups_exists' = r.backups_exists
       /\ backup_dirs' = r.backup_dirs
       /\ backup_loose' = r.backup_loose
  /\ bpc' = "restore_copy"
  /\ UNCHANGED <<now, rid, rflag, ncalls, bresult, snap, edited, listing,
                 cleanup_ret, pre_restore>>

\* "Restore files from backup": backup_dir.iterdir() raises when the
\* directory is gone; otherwise each item is copied to
\* PROJECT_BACKUP_DIR / item.name.
bk_restore_copy ==
  /\ bpc = "restore_copy"
  /\ IF \E e \in backup_dirs : e.id = rid
     THEN LET backup_dir == CHOOSE e \in backup_dirs : e.id = rid IN
            /\ backup_loose' = [f \in DataNames |->
                                  IF backup_dir.files[f].exists
                                  THEN backup_dir.files[f] ELSE backup_loose[f]]
            /\ bresult' = [op |-> "restore", id |-> rid, exc |-> "none"]
     ELSE /\ bresult' = [op |-> "restore", id |-> rid, exc |-> "FileNotFoundError"]
          /\ UNCHANGED backup_loose
  /\ bpc' = "idle"
  /\ UNCHANGED <<prsm, backups_exists, backup_dirs, now, rid, rflag, ncalls, snap, edited,
                 listing, cleanup_ret, pre_restore>>

\* The process is killed while restore_project_backup is running.
bk_kill ==
  /\ bpc \in {"restore_safety", "restore_remove", "restore_copy"}
  /\ bpc' = "killed"
  /\ UNCHANGED <<prsm, backups_exists, backup_dirs, backup_loose, now, rid, rflag, ncalls,
                 bresult, snap, edited, listing, cleanup_ret, pre_restore>>

Unknown == <<117, 110, 107, 110, 111, 119, 110>>
Present(files) == {f \in DataNames : files[f].exists}

\* What list_project_backups appends for one directory that holds a
\* backups.json: the metadata load_json_file returns, or, when it raises,
\* the record built from the directory (rglob counts backups.json too).
\* status "none" stands for a record without that key.
BackupRecord(e) ==
  IF e.json = "ok"
  THEN [backup_id |-> e.meta.backup_id,
        created_at |-> e.meta.created_at,
        files_count |-> e.meta.files_count,
        status |-> "none",
        backup_folder |-> e.id]
  ELSE [backup_id |-> e.id,
        created_at |-> Unknown,
        files_count |-> Cardinality(Present(e.files)) + 1,
        status |-> "metadata_corrupted",
        backup_folder |-> e.id]

\* The orders in which iterdir() may yield the directories S.
Orders(S) ==
  {q \in [1..Cardinality(S) -> S] : \A i, j \in 1..Cardinality(S) : i # j => q[i] # q[j]}

\* list.sort(key=lambda x: x.get("created_at", ""), reverse=True): a stable
\* sort, so records with equal keys keep the order they had.
RECURSIVE sort_created_at(_)
sort_created_at(q) ==
  IF q = <<>> THEN <<>>
  ELSE LET i == CHOOSE k \in 1..Len(q) :
                  /\ \A j \in 1..Len(q) : ~StrLess(q[k].created_at, q[j].created_at)
                  /\ \A j \in 1..(k - 1) : q[j].created_at # q[k].created_at
       IN <<q[i]>> \o sort_created_at(SubSeq(q, 1, i - 1) \o SubSeq(q, i + 1, Len(q)))

RECURSIVE BackupRecords(_)
BackupRecords(q) ==
  IF q = <<>> THEN <<>>
  ELSE (IF q[1].json # "missing" THEN <<BackupRecord(q[1])>> ELSE <<>>)
       \o BackupRecords(Tail(q))

\* list_project_backups() when iterdir() yields the directories in the order q
list_project_backups(exists, q) ==
  IF ~exists THEN <<>> ELSE sort_created_at(BackupRecords(q))

\* delete_backup(backup_id, "project"): the directories left, and the return value
delete_backup(dirs, backup_id) ==
  IF \E e \in dirs : e.id = backup_id
  THEN <<{e \in dirs : e.id # backup_id}, TRUE>>
  ELSE <<dirs, FALSE>>

RECURSIVE CleanupLoop(_, _, _)
CleanupLoop(dirs, old, deleted_count) ==
  IF old = <<>> THEN <<dirs, deleted_count>>
  ELSE LET d == delete_backup(dirs, old[1].backup_id)
       IN CleanupLoop(d[1], Tail(old), IF d[2] THEN deleted_count + 1 ELSE deleted_count)

\* cleanup_old_backups("project", keep_count): the directories left, and the
\* return value
cleanup_old_backups(exists, dirs, q, keep_count) ==
  LET backups == sort_created_at(list_project_backups(exists, q))
  IN CleanupLoop(dirs, SubSeq(backups, keep_count + 1, Len(backups)), 0)

KeepCounts == 0..2

\* The backups.json of a backup is lost, or its content is damaged.
bk_damage ==
  /\ bpc = "idle"
  /\ \E e \in backup_dirs : \E j \in {"missing", "corrupt"} :
       /\ e.json = "ok"
       /\ backup_dirs' = (backup_dirs \ {e}) \cup {[e EXCEPT !.json = j]}
  /\ UNCHANGED <<prsm, backups_exists, backup_loose, now, bpc, rid, rflag, ncalls,
                 bresult, snap, edited, listing, cleanup_ret, pre_restore>>

\* BackupManager.list_project_backups()
bk_list_project_backups ==
  /\ bpc = "idle"
  /\ ncalls < MaxCalls
  /\ ncalls' = ncalls + 1
  /\ \E q \in Orders(backup_dirs) :
       listing' = list_project_backups(backups_exists, q)
  /\ bresult' = [op |-> "list", id |-> <<>>, exc |-> "none"]
  /\ UNCHANGED <<prsm, backups_exists, backup_dirs, backup_loose, now, bpc, rid, rflag,
                 snap, edited, cleanup_ret, pre_restore>>

\* BackupManager.delete_backup(backup_id, "project")
bk_delete_backup ==
  /\ bpc = "idle"
  /\ ncalls < MaxCalls
  /\ ncalls' = ncalls + 1
  /\ \E backup_id \in {e.id : e \in backup_dirs} \cup {Timestamp(9)} :
       /\ backup_dirs' = delete_backup(backup_dirs, backup_id)[1]
       /\ bresult' = [op |-> "delete", id |-> backup_id, exc |-> "none"]
  /\ UNCHANGED <<prsm, backups_exists, backup_loose, now, bpc, rid, rflag, snap, edited,
                 listing, cleanup_ret, pre_restore>>

\* BackupManager.cleanup_old_backups("project", keep_count)
bk_cleanup_old_backups ==
  /\ bpc = "idle"
  /\ ncalls < MaxCalls
  /\ ncalls' = ncalls + 1
  /\ \E q \in Orders(backup_dirs) : \E keep_count \in KeepCounts :
       LET r == cleanup_old_backups(backups_exists, backup_dirs, q, keep_count) IN
         /\ backup_dirs' = r[1]
         /\ cleanup_ret' = [keep_count |-> keep_count, deleted_count |-> r[2]]
  /\ bresult' = [op |-> "cleanup", id |-> <<>>, exc |-> "none"]
  /\ UNCHANGED <<prsm, backups_exists, backup_loose, now, bpc, rid, rflag, snap, edited,
                 listing, pre_restore>>

NextBackup ==
  \/ bk_tick
  \/ bk_edit
  \/ bk_damage
  \/ bk_backup_project
  \/ bk_list_project_backups
  \/ bk_delete_backup
  \/ bk_cleanup_old_backups
  \/ bk_restore_begin
  \/ bk_restore_safety
  \/ bk_restore_remove
  \/ bk_restore_copy
  \/ bk_kill

\* ============================================================ time tracking
\* (prismtm/models.py)  ProjectTimeTracker: the active session and the log
\* of completed sessions.  Task paths and descriptions are sequences of
\* character codes; None is <<"None">> and a str s is <<"str", s>>.
None == <<"None">>
Str(s) == <<"str", s>>
\* SessionType
WORK == "work"
SessionTypes == {WORK, "break", "pause"}

\* The position of the k-th "/" of path.
NthSlash(path, k) ==
  CHOOSE i \in 1..Len(path) :
    path[i] = 47 /\ Cardinality({j \in 1..(i - 1) : path[j] = 47}) = k - 1

\* TaskPath.validate_path: PATH_PATTERN matches, that is up to three
\* segments without "/" and not empty, then a rest that is not empty.
validate_path(path) ==
  LET slashes == Cardinality({i \in 1..Len(path) : path[i] = 47})
      heads == IF slashes < 3 THEN slashes ELSE 3
  IN /\ path # <<>>
     /\ path[1] # 47
     /\ \A k \in 1..heads :
          /\ NthSlash(path, k) < Len(path)
          /\ k < 3 => path[NthSlash(path, k) + 1] # 47

\* The field validator of target_path: "if v and not validate_path(v)".
target_path_ok(v) == v = <<>> \/ validate_path(v)

\* "p", "p/t", "/p" and "" as target paths; None, "" and "w" as descriptions.
TargetPaths == {<<112>>, <<112, 47, 116>>, <<47, 112>>, <<>>}
Descriptions == {None, Str(<<>>), Str(<<119>>)}

NoSession == [active |-> FALSE, started_at |-> 0, target_path |-> <<>>, description |-> None]

start_session_overwrite(cur, log, t, target_path, description) ==
  IF ~target_path_ok(target_path)
  THEN [current_session |-> cur, sessions |-> log, exc |-> "ValidationError"]
  ELSE [current_session |-> [active |-> TRUE, started_at |-> t,
                             target_path |-> target_path, description |-> description],
        sessions |-> log, exc |-> "none"]

\* ProjectTimeTracker.start_session(target_path, description) at clock t:
\* the tracker afterwards and the exception raised.
start_session(cur, log, t, target_path, description) ==
  IF cur.active
  THEN [current_session |-> cur, sessions |-> log, exc |-> "ValueError"]
  ELSE IF ~target_path_ok(target_path)
  THEN [current_session |-> cur, sessions |-> log, exc |-> "ValidationError"]
  ELSE [current_session |-> [active |-> TRUE, started_at |-> t,
                             target_path |-> target_path, description |-> description],
        sessions |-> log, exc |-> "none"]

\* "description or self.current_session.description"
Truthy(d) == d # None /\ d # Str(<<>>)

stop_session_noappend(cur, log, t, description, session_type) ==
  IF ~cur.active
  THEN [current_session |-> cur, sessions |-> log, exc |-> "ValueError"]
  ELSE IF ~target_path_ok(cur.target_path) \/ t < cur.started_at
  THEN [current_session |-> cur, sessions |-> log, exc |-> "ValidationError"]
  ELSE [current_session |-> NoSession, sessions |-> log, exc |-> "none"]

\* ProjectTimeTracker.stop_session(description, session_type) at clock t;
\* TimeSession's validate_dates rejects ended_at < started_at.
stop_session(cur, log, t, description, session_type) ==
  IF ~cur.active
  THEN [current_session |-> cur, sessions |-> log, exc |-> "ValueError"]
  ELSE IF ~target_path_ok(cur.target_path) \/ t < cur.started_at
  THEN [current_session |-> cur, sessions |-> log, exc |-> "ValidationError"]
  ELSE [current_session |-> NoSession,
        sessions |-> Append(log, [started_at |-> cur.started_at,
                                  ended_at |-> t,
                                  target_path |-> cur.target_path,
                                  duration |-> t - cur.started_at,
                                  description |-> IF Truthy(description) THEN description
                                                  ELSE cur.description,
                                  session_type |-> session_type]),
        exc |-> "none"]

VARIABLES
  current_session,  \* ProjectTimeTracker.current_session
  sessions,         \* ProjectTimeTracker.sessions
  tnow,             \* datetime.now()
  tcalls,           \* number of start_session / stop_session calls made
  tret,             \* the last call and the exception it raised
  targs             \* the arguments of the last call

ttVars == <<current_session, sessions, tnow, tcalls, tret, targs>>
NoCallYet == [op |-> "none", exc |-> "none"]
NoArgs == [target_path |-> <<>>, description |-> None, session_type |-> "none"]
\* stop_session's session_type parameter left at its default
Omitted == "omitted"

\* ProjectTimeTracker()
InitTime ==
  /\ current_session = NoSession
  /\ sessions = <<>>
  /\ tnow \in 0..MaxClock
  /\ tcalls = 0
  /\ tret = NoCallYet
  /\ targs = NoArgs

TimeIdle ==
  /\ current_session = NoSession
  /\ sessions = <<>>
  /\ tnow = 0
  /\ tcalls = 0
  /\ tret = NoCallYet
  /\ targs = NoArgs

\* The wall clock advances, or is set back.
tt_tick ==
  /\ tnow < MaxClock
  /\ tnow' = tnow + 1
  /\ UNCHANGED <<current_session, sessions, tcalls, tret, targs>>

tt_clock_set_back ==
  /\ tnow > 0
  /\ tnow' = tnow - 1
  /\ UNCHANGED <<current_session, sessions, tcalls, tret, targs>>

tt_start_session ==
  /\ tcalls < MaxCalls
  /\ tcalls' = tcalls + 1
  /\ \E target_path \in TargetPaths : \E description \in Descriptions :
       LET r == start_session(current_session, sessions, tnow, target_path, description) IN
         /\ current_session' = r.current_session
         /\ sessions' = r.sessions
         /\ tret' = [op |-> "start", exc |-> r.exc]
         /\ targs' = [target_path |-> target_path, description |-> description,
                      session_type |-> "none"]
  /\ UNCHANGED tnow

tt_stop_session ==
  /\ tcalls < MaxCalls
  /\ tcalls' = tcalls + 1
  /\ \E description \in Descriptions : \E given \in SessionTypes \cup {Omitted} :
       LET session_type == IF given = Omitted THEN WORK ELSE given
           r == stop_session(current_session, sessions, tnow, description, session_type)
       IN
         /\ current_session' = r.current_session
         /\ sessions' = r.sessions
         /\ tret' = [op |-> "stop", exc |-> r.exc]
         /\ targs' = [target_path |-> <<>>, description |-> description,
                      session_type |-> given]
  /\ UNCHANGED tnow

NextTime ==
  \/ tt_tick
  \/ tt_clock_set_back
  \/ tt_start_session
  \/ tt_stop_session

\* ===================================================== generated migrations
\* (migration_generator.py)  A schema is its "properties": a sequence of
\* <<name, definition>>; a definition has a type, a declared default or none,
\* and, for an object, its own properties.
NoDefault == <<"no">>
Default(v) == <<"default", v>>
PropDef(type, default, properties) ==
  [type |-> type, default |-> default, properties |-> properties]

\* f"{path}.{prop_name}" for the names that occur
Dotted(path, prop_name) ==
  CASE path = "meta" /\ prop_name = "priority" -> "meta.priority"
    [] path = "meta" /\ prop_name = "note" -> "meta.note"
    [] OTHER -> "?"

\* properties.update(...) / properties[full_path] = prop_def
RECURSIVE UpdateAll(_, _)
UpdateAll(acc, more) ==
  IF more = <<>> THEN acc
  ELSE UpdateAll(PutEntry(acc, more[1][1], more[1][2]), Tail(more))

\* MigrationGenerator.extract_properties(schema, path): <<full_path, definition>>
\* for every property, the nested ones after their parent.
RECURSIVE extract_properties(_, _)
extract_properties(properties, path) ==
  IF properties = <<>> THEN <<>>
  ELSE LET prop_name == properties[1][1]
           prop_def == properties[1][2]
           full_path == IF path = "" THEN prop_name ELSE Dotted(path, prop_name)
           here == UpdateAll(<< <<full_path, prop_def>> >>,
                             extract_properties(prop_def.properties, full_path))
       IN UpdateAll(here, extract_properties(Tail(properties), path))

HasPath(props, p) == \E i \in 1..Len(props) : props[i][1] = p

\* compare_schemas(from_schema, to_schema): the fields only the one or the
\* other schema has.  (Type and enum changes concern properties that both
\* schemas have; detect_field_renames pairs a removed field with an added one.)
compare_schemas(from_schema, to_schema) ==
  LET from_props == extract_properties(from_schema, "")
      to_props == extract_properties(to_schema, "")
  IN [added_fields |-> SelectSeq(to_props, LAMBDA e : ~HasPath(from_props, e[1])),
      removed_fields |-> SelectSeq(from_props, LAMBDA e : ~HasPath(to_props, e[1])),
      renamed_fields |-> <<>>]

\* repr(value), as the tokens of the Python literal
repr(v) ==
  CASE v = Null -> << <<"l", "None">> >>
    [] v[1] = "bool" -> << <<"l", IF v[2] THEN "True" ELSE "False">> >>
    [] v[1] = "int" -> << <<"i", v[2]>> >>
    [] v[1] = "str" -> << <<"s", v[2]>> >>
    [] v[1] = "list" /\ v[2] = <<>> -> <<LBRACK, RBRACK>>
    [] OTHER -> <<LBRACE, RBRACE>>

\* MigrationGenerator.get_default_value(field_def): the literal written into
\* the generated code.
get_default_value(field_def) ==
  IF field_def.default # NoDefault THEN repr(field_def.default[2])
  ELSE CASE field_def.type = "string" -> << <<"s", "">> >>
         [] field_def.type = "integer" -> << <<"i", 0>> >>
         [] field_def.type = "number" -> << <<"f", 0>> >>
         [] field_def.type = "boolean" -> << <<"l", "False">> >>
         [] field_def.type = "array" -> <<LBRACK, RBRACK>>
         [] field_def.type = "object" -> <<LBRACE, RBRACE>>
         [] OTHER -> << <<"l", "None">> >>

\* The value the literal denotes when the generated method runs.
Literal(t) ==
  CASE t = <<LBRACK, RBRACK>> -> <<"list", <<>> >>
    [] t = <<LBRACE, RBRACE>> -> <<"map", <<>> >>
    [] t[1][1] = "i" -> <<"int", t[1][2]>>
    [] t[1][1] = "f" -> <<"float", t[1][2]>>
    [] t[1][1] = "s" -> <<"str", t[1][2]>>
    [] t[1][2] = "True" -> <<"bool", TRUE>>
    [] t[1][2] = "False" -> <<"bool", FALSE>>
    [] OTHER -> Null

\* migrated_data.pop(key, None)
Pop(entries, key) == SelectSeq(entries, LAMBDA e : e[1] # key)
RenameTargets(diff) == {diff.renamed_fields[i][2] : i \in 1..Len(diff.renamed_fields)}

\* The lines generate_upgrade_method emits for the added fields, run on
\* migrated_data:  if '<path>' not in migrated_data: migrated_data['<path>'] = <default>
RECURSIVE AddFields(_, _, _)
AddFields(entries, added, skip) ==
  IF added = <<>> THEN entries
  ELSE LET field_path == added[1][1]
           value == Literal(get_default_value(added[1][2]))
           next == IF field_path \in skip \/ (\E i \in 1..Len(entries) : entries[i][1] = field_path)
                   THEN entries
                   ELSE Append(entries, <<field_path, value>>)
       IN AddFields(next, Tail(added), skip)

\* upgrade(data) of the migration class generate_migration_code renders
generated_upgrade(diff, migrated_data) ==
  IF migrated_data[1] # "map" THEN migrated_data
  ELSE <<"map", AddFields(migrated_data[2], diff.added_fields, RenameTargets(diff))>>

\* The lines generate_downgrade_method emits for the added fields:
\* migrated_data.pop('<path>', None)
RECURSIVE PopFields(_, _, _)
PopFields(entries, added, skip) ==
  IF added = <<>> THEN entries
  ELSE PopFields(IF added[1][1] \in skip THEN entries ELSE Pop(entries, added[1][1]),
                 Tail(added), skip)

\* downgrade(data) of the same class
generated_downgrade(diff, migrated_data) ==
  IF migrated_data[1] # "map" THEN migrated_data
  ELSE <<"map", PopFields(migrated_data[2], diff.added_fields, RenameTargets(diff))>>

\* Schemas before the change: title, and optionally the object meta with note.
StringProp == PropDef("string", NoDefault, <<>>)
FromSchemas ==
  { << <<"title", StringProp>> >>,
    << <<"title", StringProp>>,
       <<"meta", PropDef("object", NoDefault, << <<"note", StringProp>> >>)>> >> }

\* Definitions of the added field priority.
AddedDefs ==
  { PropDef("string", Default(<<"str", "medium">>), <<>>),
    PropDef("string", NoDefault, <<>>),
    PropDef("integer", Default(Int1), <<>>),
    PropDef("boolean", Default(<<"bool", TRUE>>), <<>>),
    PropDef("array", Default(<<"list", <<>> >>), <<>>),
    PropDef("number", NoDefault, <<>>),
    PropDef("string", Default(Null), <<>>) }

\* The schema with the property added at the top level, or inside the
\* properties of the object `parent`.
WithProperty(schema, parent, name, def) ==
  IF parent = "" THEN Append(schema, <<name, def>>)
  ELSE [i \in 1..Len(schema) |->
          IF schema[i][1] = parent
          THEN <<parent, [schema[i][2] EXCEPT !.properties = Append(@, <<name, def>>)]>>
          ELSE schema[i]]

\* Documents the migration may be given.
StrX == <<"str", "x">>
GenDocs ==
  { Null,
    <<"map", <<>> >>,
    <<"map", << <<"title", StrA>> >> >>,
    <<"map", << <<"title", StrA>>, <<"meta", <<"map", <<>> >> >> >> >>,
    <<"map", << <<"title", StrA>>, <<"meta", <<"map", << <<"note", StrA>> >> >> >> >> >>,
    <<"map", << <<"meta", <<"map", << <<"note", StrA>> >> >> >>, <<"title", StrX>> >> >>,
    <<"map", << <<"title", StrA>>, <<"priority", StrX>> >> >>,
    <<"map", << <<"title", StrA>>, <<"meta", <<"map", << <<"priority", StrX>> >> >> >> >> >> }

VARIABLES
  from_schema,  \* properties of the schema of from_version
  to_schema,    \* properties of the schema of to_version
  gadded,       \* the field the schema change adds: its parent object and definition
  gdiff,        \* the SchemaDiff of generate_migration
  gdoc0,        \* the document handed to upgrade
  gdoc,         \* the document as the last method returned it
  gpc           \* "schemas", "generated", "upgraded", "downgraded"

genVars == <<from_schema, to_schema, gadded, gdiff, gdoc0, gdoc, gpc>>
NoDiff == [added_fields |-> <<>>, removed_fields |-> <<>>, renamed_fields |-> <<>>]
NoAdded == [parent |-> "", def |-> StringProp]

InitGen ==
  /\ from_schema \in FromSchemas
  /\ \E parent \in {"", "meta"} : \E def \in AddedDefs :
       /\ parent = "meta" => HasPath(from_schema, "meta")
       /\ gadded = [parent |-> parent, def |-> def]
       /\ to_schema = WithProperty(from_schema, parent, "priority", def)
  /\ gdiff = NoDiff
  /\ gdoc0 \in GenDocs
  /\ gdoc = gdoc0
  /\ gpc = "schemas"

GenIdle ==
  /\ from_schema = <<>>
  /\ to_schema = <<>>
  /\ gadded = NoAdded
  /\ gdiff = NoDiff
  /\ gdoc0 = Null
  /\ gdoc = Null
  /\ gpc = "idle"

\* generate_migration: compare_schemas, detect_field_renames, generate_migration_code
gen_generate_migration ==
  /\ gpc = "schemas"
  /\ gdiff' = compare_schemas(from_schema, to_schema)
  /\ gpc' = "generated"
  /\ UNCHANGED <<from_schema, to_schema, gadded, gdoc0, gdoc>>

\* upgrade(data) of the generated class
gen_upgrade ==
  /\ gpc = "generated"
  /\ gdoc' = generated_upgrade(gdiff, gdoc)
  /\ gpc' = "upgraded"
  /\ UNCHANGED <<from_schema, to_schema, gadded, gdiff, gdoc0>>

\* downgrade(data) of the generated class, on what upgrade returned
gen_downgrade ==
  /\ gpc = "upgraded"
  /\ gdoc' = generated_downgrade(gdiff, gdoc)
  /\ gpc' = "downgraded"
  /\ UNCHANGED <<from_schema, to_schema, gadded, gdiff, gdoc0>>

NextGen ==
  \/ gen_generate_migration
  \/ gen_upgrade
  \/ gen_downgrade

\* ============================================================ ProjectScope
\* (prismtm/data/core.py)  The attributes tasktree, bugs and time hold None
\* or a model; a model is its class and the revision of its content.
ModelKinds == {"tasktree", "bugs", "time"}
Model(kind, rev) == <<"model", kind, rev>>
ModelsOf(kind) == {None} \cup {Model(kind, rev) : rev \in 0..1}

\* model.model_dump(): a mapping, here the one field that tells the classes
\* apart, holding the revision.
model_dump(m) ==
  <<"map", << <<(CASE m[2] = "tasktree" -> "phases"
                   [] m[2] = "bugs" -> "bugs"
                   [] OTHER -> "sessions"),
                <<"int", m[3]>> >> >> >>

\* What a successful atomic_write(DATA_YAML, path, data) leaves at path.
Written(d) == File(YamlChunks(d))

\* The atomic_write calls of ProjectScope.save_all, in order: <<file, attribute>>
save_all_writes ==
  << <<"bugs.yml", "bugs">>, <<"tasktree.yml", "tasktree">>, <<"bugs.yml", "time">> >>

\* The files after the first k of those calls have returned.
RECURSIVE AfterWrites(_, _, _)
AfterWrites(files, attrs, k) ==
  IF k = 0 THEN files
  ELSE LET w == save_all_writes[k] IN
         [AfterWrites(files, attrs, k - 1) EXCEPT ![w[1]] = Written(model_dump(attrs[w[2]]))]

VARIABLES
  psattrs,   \* ProjectScope's tasktree, bugs and time
  psfiles,   \* tasktree.yml, bugs.yml and time.yml under basepath
  pspc,      \* "loaded", "saved"
  psret      \* how save_all ended

psVars == <<psattrs, psfiles, pspc, psret>>
OwnFile(kind) == CASE kind = "tasktree" -> "tasktree.yml" [] kind = "bugs" -> "bugs.yml"
                   [] OTHER -> "time.yml"

\* A ProjectScope some time after ProjectScope(basepath): load_model gave
\* None for each file that did not exist.
InitScope ==
  /\ psattrs \in [ModelKinds -> UNION {ModelsOf(k) : k \in ModelKinds}]
  /\ \A k \in ModelKinds : psattrs[k] \in ModelsOf(k)
  /\ psfiles \in [Range(PROJECT_FILES) -> {Absent} \cup {Written(model_dump(Model(k, 0))) : k \in ModelKinds}]
  /\ \A k \in ModelKinds :
       psfiles[OwnFile(k)] \in {Absent, Written(model_dump(Model(k, 0)))}
  /\ pspc = "loaded"
  /\ psret = "none"

ScopeIdle ==
  /\ psattrs = [k \in ModelKinds |-> None]
  /\ psfiles = [f \in Range(PROJECT_FILES) |-> Absent]
  /\ pspc = "idle"
  /\ psret = "none"

\* The caller changes a loaded model.
ps_edit ==
  /\ pspc = "loaded"
  /\ \E k \in ModelKinds :
       /\ psattrs[k] = Model(k, 0)
       /\ psattrs' = [psattrs EXCEPT ![k] = Model(k, 1)]
  /\ UNCHANGED <<psfiles, pspc, psret>>

\* ProjectScope.save_all(); the (k+1)-th atomic_write may raise.
ps_save_all ==
  /\ pspc = "loaded"
  /\ IF \A k \in ModelKinds : psattrs[k] # None
     THEN \E k \in 0..Len(save_all_writes) :
            /\ psfiles' = AfterWrites(psfiles, psattrs, k)
            /\ psret' = IF k = Len(save_all_writes) THEN "None" ELSE "FileOperationError"
     ELSE /\ psret' = "None"
          /\ UNCHANGED psfiles
  /\ pspc' = "saved"
  /\ UNCHANGED psattrs

NextScope ==
  \/ ps_edit
  \/ ps_save_all

\* ============================================================ specifications
moreVars == <<genVars, psVars>>
MoreIdle == GenIdle /\ ScopeIdle
restVars == <<ctxVars, vpdVars, faults, ttVars, moreVars>>
RestIdle == ContextIdle /\ ProjectDataIdle /\ faults = NoFaults /\ TimeIdle /\ MoreIdle
vars == <<ioVars, detVars, catVars, engineVars, migVars, bkVars, restVars>>

\* The detection part of the state while atomic_write is being examined.
DetectIdle ==
  /\ schemaDirs = {}
  /\ scope = [s \in Scopes |->
               [dir |-> FALSE, files |-> [f \in Range(FilesOf(s)) |-> NoFile], meta |-> Absent]]
  /\ dpc = "idle"
  /\ dscope = PROJECT_SCOPE
  /\ found = [s \in Scopes |-> Unset]
  /\ tried = [s \in Scopes |-> NotRun]
  /\ dexc = "none"
  /\ vfb = [s \in Scopes |-> NoResult]

\* The atomic_write part of the state while detection is being examined.
IOIdle ==
  /\ pc = "idle"
  /\ data_type = DATA_JSON
  /\ data = <<"map", <<>> >>
  /\ create_dirs = FALSE
  /\ parentDir = TRUE
  /\ target = Absent
  /\ tmp = Absent
  /\ temp_file = FALSE
  /\ temp_path = FALSE
  /\ exc = "none"
  /\ result = "none"
  /\ seen = <<"unread">>
  /\ prior = [dir |-> TRUE, target |-> Absent]

NextIO ==
  \/ create_dirs_step
  \/ mktemp
  \/ write_chunk
  \/ write_fails
  \/ dump_ends
  \/ flush
  \/ replace
  \/ except
  \/ kill
  \/ reader_load
  \/ reader_load_fails

Init ==
  InitIO /\ DetectIdle /\ CatalogIdle /\ EngineIdle /\ MigrateIdle /\ BackupIdle /\ RestIdle
Next == NextIO /\ UNCHANGED <<detVars, catVars, engineVars, migVars, bkVars, restVars>>
Spec == Init /\ [][Next]_vars

\* Readers alone: load_json_file applied to a file of any short token text.
JsonTokens ==
  {LBRACE, RBRACE, LBRACK, RBRACK, COMMA, COLON,
   <<"l", "null">>, <<"l", "true">>, <<"l", "false">>,
   <<"i", 0>>, <<"i", 1>>, <<"s", "">>, <<"s", "a">>}
JsonTexts ==
  SeqsUpTo(JsonTokens, 2)
  \cup {<<LBRACK, e, RBRACK>> : e \in {<<"i", 0>>, <<"i", 1>>, <<"s", "a">>}}
  \cup {JsonChunks(Doc0)}
InitLoad ==
  /\ pc = "idle"
  /\ data_type = DATA_JSON
  /\ data = <<"map", <<>> >>
  /\ create_dirs = FALSE
  /\ parentDir = TRUE
  /\ target \in {Absent} \cup {File(t) : t \in JsonTexts}
  /\ tmp = Absent
  /\ temp_file = FALSE
  /\ temp_path = FALSE
  /\ exc = "none"
  /\ result = "none"
  /\ seen = <<"unread">>
  /\ prior = [dir |-> TRUE, target |-> target]
InitL ==
  InitLoad /\ DetectIdle /\ CatalogIdle /\ EngineIdle /\ MigrateIdle /\ BackupIdle /\ RestIdle
NextL ==
  /\ reader_load \/ reader_load_fails
  /\ UNCHANGED <<detVars, catVars, engineVars, migVars, bkVars, restVars>>
SpecLoad == InitL /\ [][NextL]_vars

InitD ==
  /\ InitDetect /\ InitContext /\ ProjectDataIdle /\ faults = NoFaults /\ TimeIdle
  /\ MoreIdle
  /\ IOIdle /\ CatalogIdle /\ EngineIdle /\ MigrateIdle /\ BackupIdle
NextD ==
  /\ NextDetect
  /\ UNCHANGED <<ioVars, catVars, engineVars, migVars, bkVars, vpdVars, faults, ttVars,
                 moreVars>>
SpecDetect == InitD /\ [][NextD]_vars

\* The find_schema_versions part of the state while the catalog listing is
\* being examined.
ScanIdle ==
  /\ scope = [s \in Scopes |->
               [dir |-> FALSE, files |-> [f \in Range(FilesOf(s)) |-> NoFile], meta |-> Absent]]
  /\ dpc = "idle"
  /\ dscope = PROJECT_SCOPE
  /\ found = [s \in Scopes |-> Unset]
  /\ tried = [s \in Scopes |-> NotRun]
  /\ dexc = "none"
  /\ vfb = [s \in Scopes |-> NoResult]

InitC ==
  InitCatalog /\ ScanIdle /\ IOIdle /\ EngineIdle /\ MigrateIdle /\ BackupIdle /\ RestIdle
NextC ==
  /\ datacore_get_schema_versions
  /\ UNCHANGED <<ioVars, scope, dpc, dscope, found, tried, dexc, vfb, engineVars, migVars,
                 bkVars, restVars>>
SpecCatalog == InitC /\ [][NextC]_vars

InitP ==
  InitEngine /\ IOIdle /\ DetectIdle /\ CatalogIdle /\ MigrateIdle /\ BackupIdle /\ RestIdle
NextP ==
  call_get_migration_path /\ UNCHANGED <<ioVars, detVars, catVars, migVars, bkVars, restVars>>
SpecPath == InitP /\ [][NextP]_vars

InitM ==
  InitEngine /\ InitMigrate /\ IOIdle /\ DetectIdle /\ CatalogIdle /\ BackupIdle /\ RestIdle
NextM == NextMigrate /\ UNCHANGED <<ioVars, detVars, catVars, bkVars, restVars>>
SpecMigrate == InitM /\ [][NextM]_vars

InitB ==
  InitBackup /\ IOIdle /\ DetectIdle /\ CatalogIdle /\ EngineIdle /\ MigrateIdle /\ RestIdle
NextB == NextBackup /\ UNCHANGED <<ioVars, detVars, catVars, engineVars, migVars, restVars>>
SpecBackup == InitB /\ [][NextB]_vars

\* Snapshots and restores alone, without listing, deletion and cleanup.
NextR ==
  /\ \/ bk_tick
     \/ bk_edit
     \/ bk_backup_project
     \/ bk_restore_begin
     \/ bk_restore_safety
     \/ bk_restore_remove
     \/ bk_restore_copy
     \/ bk_kill
  /\ UNCHANGED <<ioVars, detVars, catVars, engineVars, migVars, restVars>>
SpecRestore == InitB /\ [][NextR]_vars

\* The rest of the scan state while validate_project_data is being examined.
InitV ==
  /\ InitProjectData
  /\ dpc = "idle"
  /\ dscope = PROJECT_SCOPE
  /\ found = [s \in Scopes |-> Unset]
  /\ tried = [s \in Scopes |-> NotRun]
  /\ dexc = "none"
  /\ vfb = [s \in Scopes |-> NoResult]
  /\ faults = NoFaults /\ TimeIdle /\ MoreIdle
  /\ ContextIdle /\ IOIdle /\ CatalogIdle /\ EngineIdle /\ MigrateIdle /\ BackupIdle
NextV ==
  /\ datacore_validate_project_data
  /\ UNCHANGED <<ioVars, dpc, dscope, found, tried, dexc, vfb, catVars, engineVars, migVars,
                 bkVars, ctxVars, faults, ttVars, moreVars>>
SpecProjectData == InitV /\ [][NextV]_vars

InitF ==
  /\ InitProbe
  /\ ContextIdle /\ ProjectDataIdle /\ TimeIdle /\ MoreIdle
  /\ IOIdle /\ CatalogIdle /\ EngineIdle /\ MigrateIdle /\ BackupIdle
NextF ==
  /\ fsv_meta \/ fsv_scan
  /\ UNCHANGED <<ioVars, catVars, engineVars, migVars, bkVars, restVars>>
SpecProbe == InitF /\ [][NextF]_vars

InitT ==
  /\ InitTime
  /\ ContextIdle /\ ProjectDataIdle /\ faults = NoFaults /\ MoreIdle
  /\ IOIdle /\ DetectIdle /\ CatalogIdle /\ EngineIdle /\ MigrateIdle /\ BackupIdle
NextT ==
  /\ NextTime
  /\ UNCHANGED <<ioVars, detVars, catVars, engineVars, migVars, bkVars, ctxVars, vpdVars,
                 faults, moreVars>>
SpecTime == InitT /\ [][NextT]_vars

InitG ==
  /\ InitGen /\ ScopeIdle
  /\ ContextIdle /\ ProjectDataIdle /\ faults = NoFaults /\ TimeIdle
  /\ IOIdle /\ DetectIdle /\ CatalogIdle /\ EngineIdle /\ MigrateIdle /\ BackupIdle
NextG ==
  /\ NextGen
  /\ UNCHANGED <<ioVars, detVars, catVars, engineVars, migVars, bkVars, ctxVars, vpdVars,
                 faults, ttVars, psVars>>
SpecGenerator == InitG /\ [][NextG]_vars

InitS ==
  /\ InitScope /\ GenIdle
  /\ ContextIdle /\ ProjectDataIdle /\ faults = NoFaults /\ TimeIdle
  /\ IOIdle /\ DetectIdle /\ CatalogIdle /\ EngineIdle /\ MigrateIdle /\ BackupIdle
NextS ==
  /\ NextScope
  /\ UNCHANGED <<ioVars, detVars, catVars, engineVars, migVars, bkVars, ctxVars, vpdVars,
                 faults, ttVars, genVars>>
SpecScope == InitS /\ [][NextS]_vars

\* ============================================================ properties
NewText == File(Emitted(data_type, data))
Complete == data_type \in {DATA_YAML, DATA_JSON} /\ Serializable(data)

\* Every proper prefix of a complete JSON document, the empty file included.
MalformedTexts ==
  {SubSeq(JsonChunks(Doc0), 1, k) : k \in 0..(Len(JsonChunks(Doc0)) - 1)}
Malformed(f) == f.exists /\ f.text \in MalformedTexts

\* C1: at every step of atomic_write, from the creation of the temporary
\* file through the rename and after it, the target path holds the complete
\* prior content (or is absent) or the complete new document, and a reader
\* that loaded the path got one of the two, never a partial write.
C1_ReaderSeesOldOrNew ==
  /\ \/ target = prior.target
     \/ Complete /\ target = NewText
  /\ \/ seen \in {<<"unread">>, <<"FileOperationError">>, load_json_file(prior.target)}
     \/ Complete /\ seen = load_json_file(NewText)

C1_Witness ==
  /\ pc = "dump"
  /\ 0 < Len(tmp.text) /\ Len(tmp.text) < Len(Emitted(data_type, data))
  /\ prior.target.exists
  /\ seen = load_json_file(prior.target)

\* C2 as stated: after a kill before the rename the target holds the prior
\* content or is absent, and the temporary file is the only thing on disk
\* that differs from before the call.
C2_Original_OnlyTempResidue ==
  pc = "killed" =>
    /\ target = prior.target
    /\ parentDir = prior.dir

\* C2 amended: after a kill before the rename the target holds the prior
\* content or is absent, never partial bytes of D; what the call leaves on
\* disk is at most the temporary file and, when create_dirs was set, the
\* parent directory it created.
C2_KillLeavesTargetUntouched ==
  pc = "killed" =>
    /\ target = prior.target
    /\ (parentDir # prior.dir) => (create_dirs /\ parentDir /\ ~prior.dir)

C2_Witness ==
  /\ pc = "killed"
  /\ prior.target.exists
  /\ tmp.exists
  /\ 0 < Len(tmp.text) /\ Len(tmp.text) < Len(Emitted(data_type, data))

\* C3: whenever atomic_write fails with a serialization error or an I/O
\* error, the temporary file no longer exists when the call returns and the
\* target is exactly what it was before the call.
C3_FailureRemovesTemp ==
  (pc = "raised" /\ exc \in {"TypeError", "YAMLError", "OSError"}) =>
    /\ ~tmp.exists
    /\ target = prior.target

\* C4: a serialization failure raises FatalError, an I/O failure (a failed
\* creation of the parent directory included) raises FileOperationError,
\* and no other exception type leaves atomic_write.
C4_DistinguishedErrors ==
  pc = "raised" =>
    /\ result \in {"FatalError", "FileOperationError"}
    /\ (exc \in {"TypeError", "YAMLError"} => result = "FatalError")
    /\ (exc \in {"OSError", "FileOperationError"} => result = "FileOperationError")

\* C5: after a successful atomic_write(DATA_JSON, P, D), load_json_file(P)
\* returns a document structurally equal to D.
C5_JsonRoundTrip ==
  (pc = "returned" /\ data_type = DATA_JSON) =>
    load_json_file(target) = <<"ok", data>>

C5_Witness ==
  /\ pc = "returned"
  /\ data_type = DATA_JSON
  /\ data = <<"map", << <<"a", <<"list", <<Int1, StrA>> >> >>,
                        <<"b", <<"map", << <<"a", Int1>> >> >> >> >> >>
  /\ seen = <<"ok", data>>

CatalogVersions ==
  {v \in Versions : VersionStr(v) \in schemaDirs \/ VPrefixed(VersionStr(v)) \in schemaDirs}
NamesOf(v) == {VersionStr(v), VPrefixed(VersionStr(v))}
Scanned(s) == tried[s] # NotRun
ValidatesAll(s, v) == \A f \in YamlFiles(s) : v \in scope[s].files[f].conf
Fresh(s) == ~scope[s].dir \/ YamlFiles(s) = {}

\* C7: for every catalog version V, when a scope has no version marker and
\* each of its data files validates against V and against no other catalog
\* version, _validate_schemas_backwards returns exactly V.
C7_DetectsTheOnlyValidVersion ==
  \A s \in Scopes : \A v \in CatalogVersions :
    ( /\ Scanned(s)
      /\ YamlFiles(s) # {}
      /\ \A f \in YamlFiles(s) : scope[s].files[f].conf \cap CatalogVersions = {v} )
    => found[s] \in NamesOf(v)

C9_MarkerIsTrusted ==
  \A s \in Scopes : \A v \in Versions :
    (dpc \in {"returned", "raised"} /\ scope[s].meta = MetaFile(v))
    => (dpc = "returned" /\ found[s] = VersionStr(v) /\ ~Scanned(s))

\* C10: when a scope has data files, no version marker, and no catalog
\* version validates all of them, the scope is reported at the oldest
\* catalog version.
OldestCatalogVersion == CHOOSE v \in CatalogVersions : \A w \in CatalogVersions \ {v} : VersionLess(v, w)
C10_NoMatchReportsOldest ==
  \A s \in Scopes :
    ( /\ Scanned(s)
      /\ YamlFiles(s) # {}
      /\ CatalogVersions # {}
      /\ \A v \in CatalogVersions : ~ValidatesAll(s, v) )
    => found[s] \in NamesOf(OldestCatalogVersion)

\* C11: when more than one catalog version validates all present files of a
\* scope that has no version marker, _validate_schemas_backwards returns the
\* greatest of them under numeric comparison of major.minor.patch.
ValidatingVersions(s) == {v \in CatalogVersions : ValidatesAll(s, v)}
Greatest(S) == CHOOSE v \in S : \A w \in S \ {v} : VersionLess(w, v)
C11_ReturnsNumericallyGreatest ==
  \A s \in Scopes :
    ( /\ Scanned(s)
      /\ YamlFiles(s) # {}
      /\ Cardinality(ValidatingVersions(s)) > 1 )
    => found[s] \in NamesOf(Greatest(ValidatingVersions(s)))

\* C12: DataCore.get_schema_versions returns exactly the versions of the
\* schema root's subdirectories named "v" + version, ignoring entries that
\* are not directories and names that do not parse as versions, sorted
\* newest-first by numeric comparison.
VersionNamedDirs ==
  {e \in DirEntries(schemaDirs) \cup schemaOther :
     /\ e.is_dir
     /\ e.name # <<>> /\ e.name[1] = 118
     /\ version_parse(Tail(e.name))[1] = "Version"}
C12_ListsVersionDirectories ==
  gsv # NotCalled =>
    /\ gsv[1] = "ok"
    /\ Len(gsv[2]) = Cardinality(VersionNamedDirs)
    /\ Range(gsv[2]) = {Tail(e.name) : e \in VersionNamedDirs}
    /\ \A i \in 1..Len(gsv[2]) : \A j \in 1..Len(gsv[2]) :
         i < j => ReleaseLess(version_parse(gsv[2][j])[2], version_parse(gsv[2][i])[2])

\* C13: with a migration registered for every adjacent pair of the available
\* versions v0 < v1 < ... < vn, get_migration_path(v0) returns exactly n
\* steps, in ascending version order, each step's target version being the
\* next step's source version.
AllAdjacentRegistered ==
  \A i \in 1..(Len(available_versions) - 1) :
    MigrationKey(available_versions[i], available_versions[i + 1]) \in migrations
C13_CompletePath ==
  ( /\ gmp # NoCall
    /\ available_versions # <<>>
    /\ gmp.current_version = available_versions[1]
    /\ AllAdjacentRegistered )
  => LET path == gmp.path
         n == Len(available_versions) - 1
     IN /\ Len(path) = n
        /\ \A i \in 1..Len(path) : ListLess(IntKey(KeyFrom(path[i])), IntKey(KeyTo(path[i])))
        /\ \A i \in 1..(Len(path) - 1) : KeyTo(path[i]) = KeyFrom(path[i + 1])
        /\ n > 0 => ( /\ KeyFrom(path[1]) = available_versions[1]
                      /\ KeyTo(path[n]) = available_versions[n + 1] )

C13_Witness ==
  /\ gmp # NoCall
  /\ Len(available_versions) = 3
  /\ gmp.current_version = available_versions[1]
  /\ AllAdjacentRegistered
  /\ Len(gmp.path) = 2

\* ------------------------------------------------------------- migration
\* The steps that lead from current_version 'v0.0.0' to the end version.
ResolvedPath == get_migration_path(available_versions, migrations, V000)
RECURSIVE ApplyPath(_, _, _)
ApplyPath(path, i, d) ==
  IF i > Len(path) THEN d ELSE ApplyPath(path, i + 1, upgrade(path[i], d))
\* The complete migrated content of data file f.
Migrated(f) == File(YamlChunks(ApplyPath(ResolvedPath, 1, yaml_safe_load(pre[f].text)[2])))
SomeStepAbsent ==
  LET i == IndexOf(available_versions, V000) IN
    /\ i > 0
    /\ \E j \in i..(Len(available_versions) - 1) :
         MigrationKey(available_versions[j], available_versions[j + 1]) \notin migrations

\* C14: if the migration step of any adjacent version pair between the
\* current version and the end version is absent, the path lookup yields no
\* path (never a shorter one) and no step is applied to any file.
C14_AbsentStepFailsLookup ==
  SomeStepAbsent =>
    /\ migration_path = <<>>
    /\ mdata = Null
    /\ \A f \in DOMAIN mfiles : mfiles[f] = pre[f]

\* C15: when a step's upgrade raises during a multi-file migration, the file
\* being migrated is restored to its exact pre-migration content, every
\* file migrated before it keeps its migrated content, and the remaining
\* files are processed.
C15_RollbackIsPerFile ==
  /\ \A f \in DOMAIN mfiles : outcome[f] = "rolled_back" => mfiles[f] = pre[f]
  /\ \A f \in DOMAIN mfiles : cause[f] = "upgrade" => mfiles[f] = pre[f]
  /\ \A f \in DOMAIN mfiles : outcome[f] = "migrated" => mfiles[f] = Migrated(f)
  /\ (mpc = "returned" /\ mdirExists) => \A f \in DOMAIN mfiles : outcome[f] # "none"

C15_Witness ==
  /\ mpc = "returned"
  /\ mcall = "project"
  /\ outcome["project.yml"] = "migrated"
  /\ cause["bugs.yml"] = "upgrade"
  /\ outcome["bugs.yml"] = "rolled_back"
  /\ outcome["tasks.yml"] = "migrated"
  /\ mfiles["project.yml"] # pre["project.yml"]

\* C16: migrate_project_files and migrate_user_files return success only if
\* no file's migration failed and was rolled back.
C16_RollbackMeansFailure ==
  mresult = "True" => \A f \in DOMAIN mfiles : outcome[f] # "rolled_back"

\* C17: when the lookup from the current version yields no step (the
\* current version is the end version, or no path can be resolved from it),
\* migrate_file leaves every file's content unchanged and creates no .bak.
C17_NoPathNoEffect ==
  ResolvedPath = <<>> =>
    \A f \in DOMAIN mfiles : mfiles[f] = pre[f] /\ ~mbak[f].exists

C17_Witness ==
  /\ mpc = "returned"
  /\ available_versions # <<>>
  /\ available_versions[Len(available_versions)] = V000
  /\ \E f \in DOMAIN mfiles : outcome[f] = "nopath"

\* C18: the .bak copy is created before the file is first modified, exists
\* for as long as the file is being rewritten, and no .bak copy remains once
\* migrate_file has returned, after a success and after a rollback.
BakWhileRewriting ==
  mpc \in {"try", "upgrade", "dump", "except"} => mbak[file_name] = pre[file_name]
NoBakAfterReturn ==
  mpc \in {"loop", "returned"} => \A f \in DOMAIN mbak : ~mbak[f].exists
BakBeforeModification ==
  \A f \in DOMAIN mfiles :
    mfiles'[f] # mfiles[f] => (mbak[f].exists /\ mbak[f] = pre[f])
C18_BakLifetime ==
  /\ [](BakWhileRewriting /\ NoBakAfterReturn)
  /\ [][BakBeforeModification]_vars

C18_Witness ==
  /\ mpc = "returned"
  /\ \E f \in DOMAIN mfiles : outcome[f] = "migrated"
  /\ \E f \in DOMAIN mfiles : outcome[f] = "rolled_back" /\ cause[f] = "dump"

\* C19: if the process is killed during a multi-file migration, every file
\* of the scope holds its complete pre-migration content or its complete
\* migrated content.
C19_KillLeavesWholeFiles ==
  mpc = "killed" => \A f \in DOMAIN mfiles : mfiles[f] = pre[f] \/ mfiles[f] = Migrated(f)

\* ---------------------------------------------------------------- backups
\* C20: backup_project, then a change of every project data file, then
\* restore_project_backup of that backup leaves every project data file
\* with the content it had when the backup was taken.
C20_BackupRestoreRoundTrip ==
  [][ ( /\ bpc = "restore_copy"
        /\ bpc' = "idle"
        /\ rid = snap.id
        /\ edited # {}
        /\ edited = {f \in DataNames : snap.files[f].exists} )
      => prsm' = snap.files ]_vars


\* The pre_restore backup of the running restore, in the directories dirs.
SafetySnapshotIn(dirs) ==
  \E e \in dirs :
    /\ \E t \in 0..MaxClock : e.id = generate_backup_id(t, PreRestore \o rid)
    /\ e.files = pre_restore
    /\ e.json = "ok"

\* C21: restore_project_backup(backup_id, create_safety_backup=True) has a
\* complete pre_restore backup of the data files when it starts to remove
\* files, and that backup, holding the content the restore found, still
\* exists when the restore ends.
C21_SafetySnapshotSurvives ==
  [][/\ (bpc = "restore_remove" /\ bpc' = "restore_copy" /\ rflag)
          => SafetySnapshotIn(backup_dirs)
     /\ (bpc = "restore_copy" /\ bpc' = "idle" /\ rflag)
          => SafetySnapshotIn(backup_dirs')]_vars

Min(a, b) == IF a < b THEN a ELSE b

\* The step of one whole call of the named BackupManager operation.
CallOf(op) ==
  bpc = "idle" /\ bpc' = "idle" /\ ncalls' = ncalls + 1 /\ bresult'.op = op

\* C22: cleanup_old_backups("project", keep) on n backup directories leaves
\* exactly min(n, keep) of them, none older than a removed one, removes the
\* others, and returns the number it removed.
C22_CleanupKeepsNewest ==
  [][CallOf("cleanup") =>
       LET n == Cardinality(backup_dirs)
           keep == cleanup_ret'.keep_count
       IN /\ backup_dirs' \subseteq backup_dirs
          /\ Cardinality(backup_dirs') = Min(n, keep)
          /\ \A e \in backup_dirs' : \A d \in backup_dirs \ backup_dirs' :
               ~StrLess(e.meta.created_at, d.meta.created_at)
          /\ cleanup_ret'.deleted_count = n - Min(n, keep)]_vars

\* The time at which backup_project made the directory a listed record
\* stands for.
CreationTime(record) ==
  (CHOOSE e \in backup_dirs : e.id = record.backup_folder).meta.created_at

\* C23: the records list_project_backups returns are ordered newest first by
\* the creation time of their backups, whatever the state of the metadata
\* files.
C23_ListingNewestFirst ==
  [][CallOf("list") =>
       \A i, j \in 1..Len(listing') :
         i < j => ~StrLess(CreationTime(listing'[i]), CreationTime(listing'[j]))]_vars

\* C24: every directory of .prsm/backups has a record in the listing, and
\* the record of a backup whose backups.json is missing or unreadable names
\* the directory and is marked as degraded.
C24_EveryBackupListed ==
  [][CallOf("list") =>
       \A e \in backup_dirs : \E i \in 1..Len(listing') :
         /\ listing'[i].backup_folder = e.id
         /\ e.json # "ok" => /\ listing'[i].backup_id = e.id
                             /\ listing'[i].status = "metadata_corrupted"]_vars

\* C25: in every step, each backup directory either stays with the files it
\* captured, or is removed by a cleanup_old_backups or delete_backup call;
\* no step of restore_project_backup or backup_project removes or alters one.
C25_BackupsAreImmutable ==
  [][\A e \in backup_dirs :
       \/ \E d \in backup_dirs' : d.id = e.id /\ d.files = e.files
       \/ /\ ~\E d \in backup_dirs' : d.id = e.id
          /\ CallOf("cleanup") \/ CallOf("delete")]_vars

\* C26: backup_project, with or without a directory .prsm/backups, ends
\* without an exception and leaves a backup directory that holds a copy of
\* every data file of .prsm and a backups.json whose file list is exactly
\* the set of copied files.
C26_BackupCopiesEveryFile ==
  [][CallOf("backup") =>
       /\ bresult'.exc = "none"
       /\ \E e \in backup_dirs' :
            /\ e.id = bresult'.id
            /\ \A f \in Present(prsm) : e.files[f] = prsm[f]
            /\ e.json = "ok"
            /\ e.meta.files = Present(prsm)
            /\ e.meta.files_count = Cardinality(Present(prsm))]_vars

\* The files of a scope validate against the schemas of APP_SCHEMA_VERSION.
ScopeValidates(s) ==
  /\ scope[s].dir
  /\ \A f \in YamlFiles(s) :
       \E v \in Versions :
         /\ VersionStr(v) = app_version
         /\ VPrefixed(app_version) \in schemaDirs
         /\ v \in scope[s].files[f].conf

\* C27: when find_schema_versions has returned, validate_context raises
\* MigrationNeededError if the project or the user version differs from
\* APP_SCHEMA_VERSION, ends with True only if both equal it and both scopes
\* validate, and leaves every data file and meta.json as it was.
C27_ValidateContext ==
  [][/\ scope' = scope
     /\ (vctx = "none" /\ vctx' # "none") =>
          /\ (dpc = "returned" /\ \E s \in Scopes : found[s] # app_version)
               => vctx' = "MigrationNeededError"
          /\ vctx' = "True" =>
               /\ dpc = "returned"
               /\ \A s \in Scopes : found[s] = app_version /\ ScopeValidates(s)]_vars

C27_Witness ==
  /\ vctx = "MigrationNeededError"
  /\ dpc = "returned"
  /\ found[PROJECT_SCOPE] = app_version
  /\ found[USER_SCOPE] # app_version

\* The advisory entry for a missing file is among the errors returned.
Advised(f) ==
  \E k \in 1..Len(vpd.errors) : vpd.errors[k] = <<OptionalMissing, f>>

\* C28: after validate_project_data, every missing optional file has an
\* advisory entry, is_valid does not depend on the optional files (it is
\* true whenever tasktree.yml is there and validates under a listed
\* version), and is_valid is false when tasktree.yml is missing.
C28_RequiredVersusOptional ==
  vpd # NotValidated =>
    LET sc == scope[PROJECT_SCOPE]
        missing(f) == ~ProjectFileExists(sc, time_yml, f)
    IN /\ \A f \in Range(OPTIONAL_PROJECT_FILES) : missing(f) => Advised(f)
       /\ (/\ ~missing("tasktree.yml")
           /\ \E d \in schemaDirs :
                d[1] = 118 /\ VersionOfDir(d) \in sc.files["tasktree.yml"].conf)
            => vpd.is_valid
       /\ \A f \in Range(REQUIRED_PROJECT_FILES) : missing(f) => ~vpd.is_valid

\* The schema listing in the order the project scan walks it, and whether
\* every project file validates under its i-th entry: the schema directory
\* is there and intact, the file parses, and its content conforms.
ScanOrder == SortedDescStr(schemaDirs)
ValidatesUnder(i) ==
  LET d == VPrefixed(ScanOrder[i]) IN
    \A f \in YamlFiles(PROJECT_SCOPE) :
      /\ d \in schemaDirs
      /\ d \notin faults.badjson \cup faults.unreadable
      /\ f \notin faults.badyaml
      /\ VersionOfDir(d) \in scope[PROJECT_SCOPE].files[f].conf

\* C29: whatever fails while one version is probed (schema file missing or
\* unreadable, data file unparsable, validation failure), the project scan
\* ends without an exception, has tried every listed version before the one
\* it returns, and returns the first listed version under which every file
\* validates, or 0.0.0 when there is none.
C29_ProbeFailuresAreContained ==
  tried[PROJECT_SCOPE] # NotRun =>
    /\ dpc # "raised"
    /\ dexc = "none"
    /\ (YamlFiles(PROJECT_SCOPE) # {} /\ ScanOrder # <<>>) =>
         IF \E i \in 1..Len(ScanOrder) : ValidatesUnder(i)
         THEN LET first == CHOOSE i \in 1..Len(ScanOrder) :
                             ValidatesUnder(i) /\ \A j \in 1..(i - 1) : ~ValidatesUnder(j)
              IN /\ found[PROJECT_SCOPE] = ScanOrder[first]
                 /\ tried[PROJECT_SCOPE] = SubSeq(ScanOrder, 1, first)
         ELSE /\ found[PROJECT_SCOPE] = ZeroVersion
              /\ tried[PROJECT_SCOPE] = ScanOrder

\* A version whose schema files cannot be opened was probed and passed
\* over, and an older entry of the listing was returned.
C29_Witness ==
  /\ tried[PROJECT_SCOPE] # NotRun
  /\ found[PROJECT_SCOPE] # ZeroVersion
  /\ \E i \in 1..(Len(tried[PROJECT_SCOPE]) - 1) :
       VPrefixed(tried[PROJECT_SCOPE][i]) \in faults.unreadable

\* One whole call of start_session or stop_session.
TrackerCall(op) == tcalls' = tcalls + 1 /\ tret'.op = op

\* C30: start_session while a session is active, and stop_session while no
\* session is active, raise ValueError and leave current_session and the
\* session log as they were.
C30_MisuseLeavesTrackerUnchanged ==
  [][((TrackerCall("start") /\ current_session.active)
        \/ (TrackerCall("stop") /\ ~current_session.active))
     => /\ tret'.exc = "ValueError"
        /\ current_session' = current_session
        /\ sessions' = sessions]_vars

\* start_session has been refused on a tracker that has an active session.
C30_Witness ==
  /\ tret = [op |-> "start", exc |-> "ValueError"]
  /\ current_session.active

\* C31: stop_session on an active session clears current_session
\* and appends exactly one completed session with the active session's target
\* path and start time, of type WORK unless another type is given; a
\* start_session with a well-formed target path that follows succeeds.
Completed(active, given) ==
  /\ current_session' = NoSession
  /\ Len(sessions') = Len(sessions) + 1
  /\ SubSeq(sessions', 1, Len(sessions)) = sessions
  /\ sessions'[Len(sessions')].target_path = active.target_path
  /\ sessions'[Len(sessions')].started_at = active.started_at
  /\ sessions'[Len(sessions')].session_type = (IF given = Omitted THEN WORK ELSE given)
StartFollowsStop ==
  /\ TrackerCall("start")
  /\ tret = [op |-> "stop", exc |-> "none"]
  /\ target_path_ok(targs'.target_path)
C31_StopCompletesSession ==
  [][/\ (TrackerCall("stop") /\ current_session.active)
          => /\ tret'.exc = "none"
             /\ Completed(current_session, targs'.session_type)
     /\ StartFollowsStop
          => /\ tret'.exc = "none"
             /\ current_session'.active]_vars

\* C38: at most one session is active, the session log only grows at its end,
\* and it grows by one exactly on a stop_session call that succeeds, so its
\* length is the number of such calls.
C38_LogAppendOnly ==
  [][/\ SubSeq(sessions', 1, Len(sessions)) = sessions
     /\ Len(sessions') =
          Len(sessions) + (IF TrackerCall("stop") /\ tret'.exc = "none" THEN 1 ELSE 0)
     /\ current_session'.active =>
          \/ current_session' = current_session
          \/ ~current_session.active /\ TrackerCall("start")]_vars
C38_Witness ==
  /\ Len(sessions) = 1
  /\ tret = [op |-> "stop", exc |-> "ValueError"]

\* C36: for every file whose content parses to something other than a
\* mapping (a list, number, string or boolean, empty or not), load_json_file
\* raises FatalError and never returns a document.
NonMapping(f) ==
  /\ f.exists
  /\ json_load(f.text).ok
  /\ json_load(f.text).val # Null
  /\ json_load(f.text).val[1] # "map"
C36_NonMappingIsFatal ==
  NonMapping(target) => seen \in {<<"unread">>, <<"FatalError">>, <<"FileOperationError">>}

\* C39: a version marker that exists but records no schema_version (an empty
\* file or an empty object) does not abort detection: find_schema_versions
\* falls back to backward validation for that scope and returns a version.
MarkerWithoutVersion(s) == scope[s].meta \in {MetaEmptyObject, MetaEmptyFile}
C39_EmptyMarkerFallsBack ==
  /\ dpc = "raised" => ~MarkerWithoutVersion(dscope)
  /\ \A s \in Scopes :
       (dpc = "returned" /\ MarkerWithoutVersion(s)) => Scanned(s)

\* C33: migrate_project_files(target) applies to each file exactly the steps
\* from the scope's current version to target: a step whose field the file
\* already carried before the call (as after a successful earlier call) is
\* not applied again, and no step beyond target is applied.
BeyondTarget(migration_key) ==
  ListLess(IntKey(target_version), IntKey(KeyTo(migration_key)))
AlreadyApplied(f, migration_key) ==
  LET d == yaml_safe_load(pre[f].text) IN
    /\ d[1] = "ok"
    /\ d[2] # Null
    /\ HasKey(d[2], VersionLabel(KeyTo(migration_key)))
C33_OnlyStepsToTarget ==
  (mcall = "project" /\ mpc \in {"try", "upgrade", "dump"})
    => \A i \in 1..Len(migration_path) :
         /\ ~BeyondTarget(migration_path[i])
         /\ ~AlreadyApplied(file_name, migration_path[i])

\* C35: if restore_project_backup is interrupted at any point, every project
\* data file that existed before the restore still exists and holds its
\* complete content from before the restore or its complete content from the
\* backup being restored.
BackupContent(f) ==
  IF \E e \in backup_dirs : e.id = rid
  THEN {(CHOOSE e \in backup_dirs : e.id = rid).files[f]}
  ELSE {}
C37_BackupFolderIsNew ==
  [][(CallOf("backup") /\ bresult'.exc = "none")
       => bresult'.id \notin {e.id : e \in backup_dirs}]_vars

\* C32: for a migration generated from a schema change that adds a field with
\* a declared default, upgrade sets the field to that default when the
\* document lacks it and keeps every other field, and downgrade removes it,
\* so that downgrade(upgrade(D)) = D.
Missing == <<"missing">>
\* The value of the field `name` of a mapping, directly or inside `parent`.
FieldOf(doc, name) ==
  IF doc[1] = "map" /\ HasKey(doc, name) THEN Lookup(doc, name) ELSE Missing
FieldAt(doc, parent, name) ==
  IF parent = "" THEN FieldOf(doc, name)
  ELSE IF FieldOf(doc, parent) = Missing THEN Missing
  ELSE FieldOf(FieldOf(doc, parent), name)
\* The document without that field.
WithoutField(doc, parent, name) ==
  IF parent = "" THEN <<"map", Pop(doc[2], name)>>
  ELSE <<"map", [i \in 1..Len(doc[2]) |->
                   IF doc[2][i][1] = parent /\ doc[2][i][2][1] = "map"
                   THEN <<parent, <<"map", Pop(doc[2][i][2][2], name)>> >>
                   ELSE doc[2][i]]>>
AddsFieldWithDefault ==
  /\ gadded.def.default # NoDefault
  /\ gdoc0[1] = "map"
  /\ FieldAt(gdoc0, gadded.parent, "priority") = Missing
  /\ gadded.parent # "" => FieldOf(gdoc0, gadded.parent) # Missing
C32_UpgradeDowngradeRoundTrip ==
  AddsFieldWithDefault
    => /\ gpc = "upgraded"
            => /\ FieldAt(gdoc, gadded.parent, "priority") = gadded.def.default[2]
               /\ WithoutField(gdoc, gadded.parent, "priority") = gdoc0
       /\ gpc = "downgraded"
            => /\ FieldAt(gdoc, gadded.parent, "priority") = Missing
               /\ gdoc = gdoc0

\* C34: after ProjectScope.save_all has returned, every loaded model is
\* stored in its own file, also when only some of the three were loaded.
C34_SaveAllStoresEveryModel ==
  (pspc = "saved" /\ psret = "None")
    => \A k \in ModelKinds :
         psattrs[k] # None => psfiles[OwnFile(k)] = Written(model_dump(psattrs[k]))

====
